---- MODULE Spec2Model ----
(***************************************************************************)
(* Rat Scout (Zepp OS watchface + app-side companion).                     *)
(*                                                                         *)
(*   SpecWatch : the watch-side messaging client of watchface/index.js     *)
(*               (hmBle framing, receive callback, display applicators).   *)
(*   SpecWatchLink : the same client between two MINUTEEND events.         *)
(*   SpecWatchVersions : the same, with buffers of another version byte.   *)
(*   SpecCodec : _buildPkt/_buildInner composed with the field offsets of  *)
(*               the receive callback, as a pure round trip.               *)
(*   SpecHost  : the request handler of app-side/index.js with its three   *)
(*               fetch functions, caches and Dexcom session.               *)
(*   SpecHostCache : the same handler while the phone clock advances past  *)
(*               the cache lifetimes.                                      *)
(*   SpecHostConc : overlapping runs of the handler.                       *)
(*   SpecHostConcAuth : overlapping runs with refused sessions.            *)
(*   SpecHostConcClock : overlapping runs while the phone clock advances.  *)
(*   SpecHostSettings : the handler while the user edits the settings.     *)
(*   SpecHostPaced : the clock advancing only between two requests.        *)
(*   SpecHostBetween : settings edited only between two requests.          *)
(*   SpecHostRefetch : refetches after the cache entries expired.          *)
(*   SpecHostLive : the handler with upstream calls that may never         *)
(*               complete, fair to the calls that do and to the clock.     *)
(*   SpecApply : applyAll on every shape of snapshot, as a pure function.  *)
(*   SpecAstro : the sun and moon rule of fetchAstronomy.                  *)
(*   SpecSchedule : parseDays/computeGarbageBag of the schedule listing.   *)
(***************************************************************************)
EXTENDS Integers, Sequences, FiniteSets, TLC

\* ---------------------------------------------------------------- bounds
\* shake replies the watch handles in one run (caps _traceId and _spanId)
MaxRequests == 2
\* MINUTEEND sensor events delivered to the watch in one run
MaxMinutes == 1

\* ------------------------------------------------------------- variables
VARIABLES
  \* watchface/index.js
  _blePort,     \* let _blePort
  _traceId,     \* let _traceId
  _spanId,      \* let _spanId
  _pending,     \* let _pending: the set of keys of the object
  _appId,       \* let _appId
  display,      \* properties of the widgets in R that the applicators set
  hasBottom,    \* whether buildBottomZone created its widgets
  phase,        \* "new" | "running" | "destroyed"
  linkUp,       \* hmBle connection open, receive callback registered
  sent,         \* buffers handed to hmBle.send, in order
  rx,           \* the buffer of the latest receive callback
  rxPath,       \* branch the latest receive callback took
  wclock,       \* Date.now() on the watch
  reqClock,     \* Date.now() when the latest request was sent
  \* codec round trip
  env,          \* the envelope to encode
  wire,         \* encode(env), <<>> before encoding
  dec           \* decode(wire), NoEnvelope before decoding

wvars == <<_blePort, _traceId, _spanId, _pending, _appId, display, hasBottom,
           phase, linkUp, sent, rx, rxPath, wclock, reqClock>>
cvars == <<env, wire, dec>>

\* ------------------------------------------------ byte-level primitives
Byte == 0..255

\* function _u16(b, o, v): the two bytes written at o, o+1
_u16(v) == <<v % 256, (v \div 256) % 256>>

\* function _u32(b, o, v): the four bytes written at o..o+3
_u32(v) == <<v % 256, (v \div 256) % 256, (v \div 65536) % 256,
             (v \div 16777216) % 256>>

\* function _r32(b, o): o is the 0-based JS offset
_r32(b, o) == b[o + 1] + 256 * b[o + 2] + 65536 * b[o + 3]
              + 16777216 * b[o + 4]

\* arr[o] | (arr[o+1] << 8), o the 0-based JS offset
Rd16(b, o) == b[o + 1] + 256 * b[o + 2]

Zeros(n) == [i \in 1..n |-> 0]

\* arr.slice(from, to) with JS clamping of both ends to the array length
Min(a, b) == IF a < b THEN a ELSE b
JsSlice(arr, from, to) ==
  LET f == Min(from, Len(arr))
      t == Min(to, Len(arr))
  IN  IF t <= f THEN <<>> ELSE SubSeq(arr, f + 1, t)

\* arr[i] inside a bit operation: an index past the end reads undefined,
\* which the bit operators coerce to 0
ByteAt(arr, i) == IF i <= Len(arr) THEN arr[i] ELSE 0

\* function _s2b(str): str is a sequence of UTF-16 code units
RECURSIVE _s2bFrom(_, _)
_s2bFrom(str, i) ==
  IF i > Len(str) THEN <<>>
  ELSE LET c == str[i] IN
       (IF c < 128 THEN <<c>>
        ELSE IF c < 2048 THEN <<192 + (c \div 64), 128 + (c % 64)>>
        ELSE <<224 + (c \div 4096), 128 + ((c \div 64) % 64), 128 + (c % 64)>>)
       \o _s2bFrom(str, i + 1)
_s2b(str) == _s2bFrom(str, 1)

\* function _b2s(arr): the while loop, taken one run at a time. A run of
\* bytes below 0x80 takes the first branch at every byte and yields those
\* bytes as code units; the byte that ends the run takes the two-byte or
\* the three-byte branch.
RECURSIVE _b2sFrom(_, _)
_b2sFrom(arr, i) ==
  IF i > Len(arr) THEN <<>>
  ELSE LET S == {n \in i..Len(arr) : arr[n] >= 128}
           j == IF S = {} THEN Len(arr) + 1
                ELSE CHOOSE n \in S : \A m \in S : n <= m
           run == SubSeq(arr, i, j - 1)
       IN  IF j > Len(arr) THEN run
           ELSE IF arr[j] \div 32 = 6
             THEN run \o <<(arr[j] % 32) * 64 + (ByteAt(arr, j + 1) % 64)>>
                  \o _b2sFrom(arr, j + 2)
             ELSE run \o <<(arr[j] % 16) * 4096
                           + (ByteAt(arr, j + 1) % 64) * 64
                           + (ByteAt(arr, j + 2) % 64)>>
                  \o _b2sFrom(arr, j + 3)
_b2s(arr) == _b2sFrom(arr, 1)

\* ------------------------------------------------------------- encoder
\* function _buildPkt(outerType, port2, appId, payBytes)
_buildPkt(outerType, port2, appId, payBytes) ==
  <<1, 1>> \o _u16(outerType) \o _u16(20) \o _u16(port2)
  \o _u32(appId) \o _u32(0) \o payBytes

\* _buildInner with six zero slots after the timestamp
_buildInner_SixSlots(traceId, totalLen, dataBytes, payloadType, spanId, now) ==
  _u32(traceId) \o _u32(0) \o _u32(spanId) \o _u32(1)
  \o _u32(totalLen) \o _u32(Len(dataBytes))
  \o <<payloadType, 1>>
  \o _u32(now % 10000000)
  \o Zeros(24)
  \o Zeros(8)
  \o dataBytes

\* _buildInner with the parentId slot written before the traceId slot
_buildInner_ParentFirst(traceId, totalLen, dataBytes, payloadType, spanId, now) ==
  _u32(0) \o _u32(traceId) \o _u32(spanId) \o _u32(1)
  \o _u32(totalLen) \o _u32(Len(dataBytes))
  \o <<payloadType, 1>>
  \o _u32(now % 10000000)
  \o Zeros(28)
  \o Zeros(8)
  \o dataBytes

\* function _buildInner(traceId, totalLen, dataBytes, payloadType);
\* spanId is the value of _spanId after the function's _spanId++,
\* now is Date.now()
_buildInner(traceId, totalLen, dataBytes, payloadType, spanId, now) ==
  _u32(traceId) \o _u32(0) \o _u32(spanId) \o _u32(1)
  \o _u32(totalLen) \o _u32(Len(dataBytes))
  \o <<payloadType, 1>>
  \o _u32(now % 10000000)
  \o Zeros(28)
  \o Zeros(8)
  \o dataBytes

\* ------------------------------------------- decoder of the receive path
OuterLen == 16
DataStart == 82

NoEnvelope == [ok |-> FALSE]

\* the header fields the hmBle callback extracts from arr
RxOuterType(arr) == Rd16(arr, 2)
RxPort2(arr)     == Rd16(arr, 4)
RxTraceId(arr)   == _r32(arr, 16)
RxTotalLen(arr)  == _r32(arr, 28)
RxPayLen(arr)    == _r32(arr, 32)
RxPayType(arr)   == arr[36 + 1]
RxPayload(arr)   == JsSlice(arr, DataStart, DataStart + RxPayLen(arr))

\* whether the callback reaches the inner-header decode for arr
RxHasInner(arr) ==
  /\ Len(arr) >= OuterLen
  /\ RxOuterType(arr) \in {4, 5}
  /\ Len(arr) > DataStart

\* the envelope the callback sees in arr
RxDecode(arr) ==
  IF RxHasInner(arr)
    THEN [ok |-> TRUE, kind |-> RxOuterType(arr), channelId |-> RxPort2(arr),
          traceId |-> RxTraceId(arr), payloadKind |-> RxPayType(arr),
          payload |-> RxPayload(arr)]
    ELSE NoEnvelope

\* ---------------------------------------------------------- JSON values
\* A JavaScript value as JSON.parse yields it.
JNull      == [t |-> "null"]
JUndef     == [t |-> "undef"]
JStr(s)    == [t |-> "str", s |-> s]
JNum(n)    == [t |-> "num", n |-> n]
JBool(b)   == [t |-> "bool", b |-> b]
JObj(o)    == [t |-> "obj", o |-> o]
JThrow     == [t |-> "throw"]

\* ToBoolean(x)
Truthy(x) ==
  CASE x.t = "str"  -> x.s # ""
    [] x.t = "num"  -> x.n # 0
    [] x.t = "bool" -> x.b
    [] x.t = "obj"  -> TRUE
    [] OTHER        -> FALSE

\* x[k] for a property name k; a missing property reads undefined
Get(x, k) == IF x.t = "obj" /\ k \in DOMAIN x.o THEN x.o[k] ELSE JUndef

\* String(x) and the string that x contributes to x + '...'
JsString(x) ==
  CASE x.t = "str"   -> x.s
    [] x.t = "num"   -> ToString(x.n)
    [] x.t = "bool"  -> IF x.b THEN "true" ELSE "false"
    [] x.t = "null"  -> "null"
    [] x.t = "undef" -> "undefined"
    [] OTHER         -> "[object Object]"

\* x || dflt for a string default
OrStr(x, dflt) == IF Truthy(x) THEN JsString(x) ELSE dflt

\* The JSON documents exchanged in the model, as UTF-8 bytes.
\*   {"action":"fetchAll"}
TxtFetchAll ==
  <<
    123, 34, 97, 99, 116, 105, 111, 110, 34, 58, 34, 102, 101, 116, 99,
    104, 65, 108, 108, 34, 125
  >>

\*   {"data":{"glucose":{"value":"120","delta":"+2","timeDelta":3},"weather
\*   ":{"temp":21,"wind":4,"windUnit":"m/s"},"astronomy":{"sunTime":"18:02"
\*   ,"moonTime":"23:10","moonPhase":4}}}
TxtRespFull ==
  <<
    123, 34, 100, 97, 116, 97, 34, 58, 123, 34, 103, 108, 117, 99, 111,
    115, 101, 34, 58, 123, 34, 118, 97, 108, 117, 101, 34, 58, 34, 49,
    50, 48, 34, 44, 34, 100, 101, 108, 116, 97, 34, 58, 34, 43, 50, 34,
    44, 34, 116, 105, 109, 101, 68, 101, 108, 116, 97, 34, 58, 51, 125,
    44, 34, 119, 101, 97, 116, 104, 101, 114, 34, 58, 123, 34, 116, 101,
    109, 112, 34, 58, 50, 49, 44, 34, 119, 105, 110, 100, 34, 58, 52,
    44, 34, 119, 105, 110, 100, 85, 110, 105, 116, 34, 58, 34, 109, 47,
    115, 34, 125, 44, 34, 97, 115, 116, 114, 111, 110, 111, 109, 121,
    34, 58, 123, 34, 115, 117, 110, 84, 105, 109, 101, 34, 58, 34, 49,
    56, 58, 48, 50, 34, 44, 34, 109, 111, 111, 110, 84, 105, 109, 101,
    34, 58, 34, 50, 51, 58, 49, 48, 34, 44, 34, 109, 111, 111, 110, 80,
    104, 97, 115, 101, 34, 58, 52, 125, 125, 125
  >>

\*   {"data":{"error":"unknown action"}}
TxtRespError ==
  <<
    123, 34, 100, 97, 116, 97, 34, 58, 123, 34, 101, 114, 114, 111, 114,
    34, 58, 34, 117, 110, 107, 110, 111, 119, 110, 32, 97, 99, 116, 105,
    111, 110, 34, 125, 125
  >>

\*   {"type":"glucose","value":"200","delta":"+5","timeDelta":2}
TxtPushGlucose ==
  <<
    123, 34, 116, 121, 112, 101, 34, 58, 34, 103, 108, 117, 99, 111,
    115, 101, 34, 44, 34, 118, 97, 108, 117, 101, 34, 58, 34, 50, 48,
    48, 34, 44, 34, 100, 101, 108, 116, 97, 34, 58, 34, 43, 53, 34, 44,
    34, 116, 105, 109, 101, 68, 101, 108, 116, 97, 34, 58, 50, 125
  >>

\*   {"type":"settings","garbageBag":"O"}
TxtPushBag ==
  <<
    123, 34, 116, 121, 112, 101, 34, 58, 34, 115, 101, 116, 116, 105,
    110, 103, 115, 34, 44, 34, 103, 97, 114, 98, 97, 103, 101, 66, 97,
    103, 34, 58, 34, 79, 34, 125
  >>

\*   {"type":"settings"}
TxtPushNoBag ==
  <<
    123, 34, 116, 121, 112, 101, 34, 58, 34, 115, 101, 116, 116, 105,
    110, 103, 115, 34, 125
  >>

\*   {"data":{"error":"internal error"}}
TxtRespInternal ==
  <<
    123, 34, 100, 97, 116, 97, 34, 58, 123, 34, 101, 114, 114, 111,
    114, 34, 58, 34, 105, 110, 116, 101, 114, 110, 97, 108, 32, 101,
    114, 114, 111, 114, 34, 125, 125
  >>
\* bytes that are not JSON
TxtGarbage == <<110, 111, 112, 101>>

ValFetchAll == JObj([action |-> JStr("fetchAll")])
ValRespFull ==
  JObj([data |-> JObj([
    glucose |-> JObj([value |-> JStr("120"), delta |-> JStr("+2"),
                      timeDelta |-> JNum(3)]),
    weather |-> JObj([temp |-> JNum(21), wind |-> JNum(4),
                      windUnit |-> JStr("m/s")]),
    astronomy |-> JObj([sunTime |-> JStr("18:02"),
                        moonTime |-> JStr("23:10"),
                        moonPhase |-> JNum(4)])])])
ValRespError == JObj([data |-> JObj([error |-> JStr("unknown action")])])
ValRespInternal ==
  JObj([data |-> JObj([error |-> JStr("internal error")])])
ValPushGlucose ==
  JObj([type |-> JStr("glucose"), value |-> JStr("200"),
        delta |-> JStr("+5"), timeDelta |-> JNum(2)])
ValPushBag   == JObj([type |-> JStr("settings"), garbageBag |-> JStr("O")])
ValPushNoBag == JObj([type |-> JStr("settings")])
\* JSON.parse(str) on the documents above; every other text the model
\* delivers (a proper prefix of a document, TxtGarbage, the empty string)
\* is not JSON and makes JSON.parse throw
JSON_parse(str) ==
  CASE str = TxtFetchAll    -> ValFetchAll
    [] str = TxtRespFull    -> ValRespFull
    [] str = TxtRespError   -> ValRespError
    [] str = TxtRespInternal -> ValRespInternal
    [] str = TxtPushGlucose -> ValPushGlucose
    [] str = TxtPushBag     -> ValPushBag
    [] str = TxtPushNoBag   -> ValPushNoBag
    [] OTHER                -> JThrow

\* JSON.stringify(json) for the one object the watch sends
JSON_stringify(json) == IF json = ValFetchAll THEN TxtFetchAll ELSE <<>>

\* ------------------------------------------------------------- display
MOON_IMGS ==
  <<"images/newmoon.png", "images/waxingcrescentmoon.png",
    "images/firstquartermoon.png", "images/waxinggibbousmoon.png",
    "images/fullmoon.png", "images/waninggibbousmoon.png",
    "images/thirdquartermoon.png", "images/waningcrescentmoon.png">>

BAG_IMGS == [O |-> "images/organicbag.png", G |-> "images/greybag.png",
             B |-> "images/blackbag.png"]

\* the widget properties right after the build functions ran
DisplayInit ==
  [glucose |-> "---", glucoseColor |-> "C_GREEN", delta |-> "",
   timeDelta |-> "", temp |-> "--", wind |-> "--", sunTime |-> "--:--",
   moonTime |-> "--:--", moonPhase |-> MOON_IMGS[1],
   garbageSrc |-> "images/organicbag.png", garbageVisible |-> FALSE]

\* parseFloat(str) on the glucose texts of the documents; -1 stands for NaN
ParseFloat(str) ==
  CASE str = "120" -> 120
    [] str = "200" -> 200
    [] str = "55"  -> 55
    [] OTHER       -> -1

\* function glucoseColor(str)
glucoseColor(str) ==
  LET v == ParseFloat(str) IN
  IF v = -1 THEN "C_GRAY"
  ELSE IF v > 180 THEN "C_ORANGE"
  ELSE IF v < 70 THEN "C_RED"
  ELSE "C_GREEN"

\* function applyGlucose(msg); d is the display before, bottom is hasBottom
applyGlucose(d, msg, bottom) ==
  IF ~Truthy(msg) THEN d
  ELSE LET val == OrStr(Get(msg, "value"), "---") IN
       [d EXCEPT !.glucose = val,
                 !.glucoseColor = glucoseColor(val),
                 !.delta = OrStr(Get(msg, "delta"), ""),
                 !.timeDelta = IF Truthy(Get(msg, "timeDelta"))
                                 THEN JsString(Get(msg, "timeDelta")) \o "m"
                                 ELSE ""]

\* function applyWeather(msg); R.temp and R.wind exist only if bottom
applyWeather(d, msg, bottom) ==
  IF ~Truthy(msg) \/ ~bottom THEN d
  ELSE [d EXCEPT
          !.temp = IF Get(msg, "temp").t # "undef"
                     THEN JsString(Get(msg, "temp"))
                          \o OrStr(Get(msg, "tempUnit"), "")
                     ELSE @,
          !.wind = IF Get(msg, "wind").t # "undef"
                     THEN JsString(Get(msg, "wind"))
                          \o OrStr(Get(msg, "windUnit"), "")
                     ELSE @]

\* function applyAstronomy(msg); its three widgets exist only if bottom
applyAstronomy(d, msg, bottom) ==
  IF ~Truthy(msg) \/ ~bottom THEN d
  ELSE [d EXCEPT
          !.sunTime = IF Truthy(Get(msg, "sunTime"))
                        THEN JsString(Get(msg, "sunTime")) ELSE @,
          !.moonTime = IF Truthy(Get(msg, "moonTime"))
                         THEN JsString(Get(msg, "moonTime")) ELSE @,
          !.moonPhase =
             IF Get(msg, "moonPhase").t = "num"
               THEN (IF Get(msg, "moonPhase").n \in 0..7
                       THEN MOON_IMGS[Get(msg, "moonPhase").n + 1]
                       ELSE MOON_IMGS[1])
               ELSE @]

\* function applySettings(msg)
applySettings(d, msg, bottom) ==
  IF ~Truthy(msg) THEN d
  ELSE LET bag == Get(msg, "garbageBag") IN
       IF Truthy(bag) /\ bag.t = "str" /\ bag.s \in DOMAIN BAG_IMGS
         THEN [d EXCEPT !.garbageSrc = BAG_IMGS[bag.s],
                        !.garbageVisible = TRUE]
         ELSE [d EXCEPT !.garbageVisible = FALSE]

\* applyAll that puts the text of an error field in the glucose widget
applyAll_ShowsError(d, msg, bottom) ==
  IF ~Truthy(msg) THEN d
  ELSE LET d0 == IF Truthy(Get(msg, "error"))
                   THEN [d EXCEPT !.glucose = JsString(Get(msg, "error"))]
                   ELSE d
           d1 == IF Truthy(Get(msg, "glucose"))
                   THEN applyGlucose(d0, Get(msg, "glucose"), bottom) ELSE d0
           d2 == IF Truthy(Get(msg, "weather"))
                   THEN applyWeather(d1, Get(msg, "weather"), bottom) ELSE d1
           d3 == IF Truthy(Get(msg, "astronomy"))
                   THEN applyAstronomy(d2, Get(msg, "astronomy"), bottom)
                   ELSE d2
       IN  IF Truthy(Get(msg, "settings"))
             THEN applySettings(d3, Get(msg, "settings"), bottom) ELSE d3

\* applyAll that runs the glucose applicator on an empty object when the
\* glucose section is missing
applyAll_BlankGlucose(d, msg, bottom) ==
  IF ~Truthy(msg) THEN d
  ELSE LET d1 == applyGlucose(d, IF Truthy(Get(msg, "glucose"))
                                   THEN Get(msg, "glucose")
                                   ELSE JObj([none |-> JNull]), bottom)
           d2 == IF Truthy(Get(msg, "weather"))
                   THEN applyWeather(d1, Get(msg, "weather"), bottom) ELSE d1
           d3 == IF Truthy(Get(msg, "astronomy"))
                   THEN applyAstronomy(d2, Get(msg, "astronomy"), bottom)
                   ELSE d2
       IN  IF Truthy(Get(msg, "settings"))
             THEN applySettings(d3, Get(msg, "settings"), bottom) ELSE d3

\* function applyAll(msg)
applyAll(d, msg, bottom) ==
  IF ~Truthy(msg) THEN d
  ELSE LET d1 == IF Truthy(Get(msg, "glucose"))
                   THEN applyGlucose(d, Get(msg, "glucose"), bottom) ELSE d
           d2 == IF Truthy(Get(msg, "weather"))
                   THEN applyWeather(d1, Get(msg, "weather"), bottom) ELSE d1
           d3 == IF Truthy(Get(msg, "astronomy"))
                   THEN applyAstronomy(d2, Get(msg, "astronomy"), bottom)
                   ELSE d2
       IN  IF Truthy(Get(msg, "settings"))
             THEN applySettings(d3, Get(msg, "settings"), bottom) ELSE d3

\* a push branch that serves only msg.type 'all'
applyPush_AllOnly(d, msg, bottom) ==
  LET ty == Get(msg, "type") IN
  IF ty.t = "str" /\ ty.s = "all" THEN applyAll(d, msg, bottom) ELSE d

\* the push branch of the receive callback: one applicator per msg.type
applyPush(d, msg, bottom) ==
  LET ty == Get(msg, "type")
      is(s) == ty.t = "str" /\ ty.s = s
      d1 == IF is("all") THEN applyAll(d, msg, bottom) ELSE d
      d2 == IF is("glucose") THEN applyGlucose(d1, msg, bottom) ELSE d1
      d3 == IF is("weather") THEN applyWeather(d2, msg, bottom) ELSE d2
      d4 == IF is("astronomy") THEN applyAstronomy(d3, msg, bottom) ELSE d3
  IN  IF is("settings") THEN applySettings(d4, msg, bottom) ELSE d4

\* ------------------------------------------------------ watch messaging
TraceId0 == 10000
SpanId0  == 1000
DefaultAppId == 1000089

\* hmApp.packageInfo().appId, or DefaultAppId when that call throws
AppIds == {DefaultAppId, 1027}

\* Date.now() on the watch when the watchface is built
WClock0 == 9970000

\* _sendJson that builds the packet without the learned port
_sendJson_NoPort(traceId, json, payloadType, spanId, port, appId, now) ==
  LET bytes == _s2b(JSON_stringify(json))
      inner == _buildInner(traceId, Len(bytes), bytes, payloadType, spanId,
                           now)
  IN  _buildPkt(4, 0, appId, inner)

\* function _sendJson(traceId, json, payloadType): the buffer handed to
\* hmBle.send; spanId is _spanId after the increment in _buildInner
_sendJson(traceId, json, payloadType, spanId, port, appId, now) ==
  LET bytes == _s2b(JSON_stringify(json))
      inner == _buildInner(traceId, Len(bytes), bytes, payloadType, spanId,
                           now)
  IN  _buildPkt(4, port, appId, inner)

\* the shake packet sent on the port of the data packets
ShakePkt_OnPort(appId) == _buildPkt(1, 20, appId, <<appId % 256>>)

\* the shake packet setupMessaging sends
ShakePkt(appId) == _buildPkt(1, 0, appId, <<appId % 256>>)

\* IsMatchingResponse without the look-up in _pending
IsMatchingResponse_NoPending(payType, traceId, pending) == payType = 2

\* payType === 0x02 && _pending[traceId]
IsMatchingResponse(payType, traceId, pending) ==
  payType = 2 /\ traceId \in pending

\* payType === 0x03 && msg
IsPush(payType, msg) == payType = 3 /\ Truthy(msg)

\* RxInner without the delete of the matched traceId
RxInner_KeepPending(arr, pending, d, bottom) ==
  LET traceId == RxTraceId(arr)
      payType == RxPayType(arr)
      msg     == JSON_parse(_b2s(RxPayload(arr)))
  IN  IF msg.t = "throw"
        THEN [pending |-> pending, display |-> d, path |-> "badjson"]
      ELSE IF IsMatchingResponse(payType, traceId, pending)
        THEN [pending |-> pending,
              display |-> IF Truthy(msg) /\ Truthy(Get(msg, "data"))
                            THEN applyAll(d, Get(msg, "data"), bottom)
                            ELSE d,
              path |-> "response"]
      ELSE IF IsPush(payType, msg)
        THEN [pending |-> pending, display |-> applyPush(d, msg, bottom),
              path |-> "push"]
      ELSE [pending |-> pending, display |-> d, path |-> "ignored"]

\* the inner try block of the receive callback: _pending and the display
\* after it, and the branch taken
RxInner(arr, pending, d, bottom) ==
  LET traceId == RxTraceId(arr)
      payType == RxPayType(arr)
      msg     == JSON_parse(_b2s(RxPayload(arr)))
  IN  IF msg.t = "throw"
        THEN [pending |-> pending, display |-> d, path |-> "badjson"]
      ELSE IF IsMatchingResponse(payType, traceId, pending)
        THEN [pending |-> pending \ {traceId},
              display |-> IF Truthy(msg) /\ Truthy(Get(msg, "data"))
                            THEN applyAll(d, Get(msg, "data"), bottom)
                            ELSE d,
              path |-> "response"]
      ELSE IF IsPush(payType, msg)
        THEN [pending |-> pending, display |-> applyPush(d, msg, bottom),
              path |-> "push"]
      ELSE [pending |-> pending, display |-> d, path |-> "ignored"]

\* a buffer laid out as the receive callback reads it: outerType at 2,
\* port at 4, traceId at 16, lengths at 28 and 32, payType at 36, data at 82
RawBuf(outerType, port, traceId, totalLen, payLen, payType, data) ==
  <<1, 1>> \o _u16(outerType) \o _u16(port) \o Zeros(10)
  \o _u32(traceId) \o Zeros(8) \o _u32(totalLen) \o _u32(payLen)
  \o <<payType>> \o Zeros(45) \o data

\* a shake reply carrying the port at offset 4
ShakeReply(port) == <<1, 1>> \o _u16(1) \o _u16(port) \o Zeros(10)

\* a well-formed response / push as the callback reads it
RespBuf(traceId, txt) == RawBuf(4, 20, traceId, Len(txt), Len(txt), 2, txt)
PushBuf(traceId, txt) == RawBuf(5, 20, traceId, Len(txt), Len(txt), 3, txt)

\* a buffer a peer builds with the layout of _buildPkt/_buildInner
PeerBuf(traceId, payloadType, txt) ==
  _buildPkt(4, 20, DefaultAppId,
            _buildInner(traceId, Len(txt), txt, payloadType, 1, 0))

\* proper prefix of a document: what a truncated delivery leaves
Cut(txt) == SubSeq(txt, 1, Len(txt) - 5)

Ports == {7, 20}

\* the buffers the link may deliver to the receive callback
InboundBuffers ==
  {ShakeReply(p) : p \in Ports}
  \cup { RespBuf(TraceId0 + 1, TxtRespFull),
         RespBuf(TraceId0 + 1, TxtRespError),
         RespBuf(TraceId0 + 2, TxtRespInternal),
         RespBuf(TraceId0 + 2, TxtRespFull),
         RespBuf(42, TxtRespFull),
         PushBuf(0, TxtPushGlucose),
         PushBuf(TraceId0 + 1, TxtPushBag),
         PushBuf(0, TxtPushNoBag),
         PeerBuf(TraceId0 + 1, 2, TxtRespFull),
         \* shorter than the outer header
         <<1, 1, 4>>,
         \* the outer header alone
         SubSeq(RespBuf(TraceId0 + 1, TxtRespError), 1, 16),
         \* data cut short, declared length as sent
         RawBuf(4, 20, TraceId0 + 1, Len(TxtRespFull), Len(TxtRespFull), 2,
                Cut(TxtRespFull)),
         \* declared length larger than the data that follows
         RawBuf(5, 20, 0, Len(TxtPushBag) + 9, Len(TxtPushBag) + 9, 3,
                TxtPushBag) }

\* buf with the protocol version byte (offset 1; _buildPkt writes 0x01) set
\* to v
WithVersion(buf, v) == [buf EXCEPT ![2] = v]

\* buffers of a peer that speaks another protocol version
OtherVersionBuffers ==
  { WithVersion(ShakeReply(7), 2),
    WithVersion(RespBuf(TraceId0 + 1, TxtRespFull), 2),
    WithVersion(PushBuf(0, TxtPushBag), 2) }

WatchInit ==
  /\ _blePort = 0
  /\ _traceId = TraceId0
  /\ _spanId = SpanId0
  /\ _pending = {}
  /\ _appId = 0
  /\ display = DisplayInit
  /\ hasBottom = FALSE
  /\ phase = "new"
  /\ linkUp = FALSE
  /\ sent = <<>>
  /\ rx = <<>>
  /\ rxPath = "none"
  /\ wclock = WClock0
  /\ reqClock = 0

\* WatchFace.build: the build functions, then setupMessaging.
\* buildBottomZone names the globals widget and align; where the runtime
\* does not define them it throws before creating any of its widgets.
Build ==
  /\ phase = "new"
  /\ phase' = "running"
  /\ \E b \in BOOLEAN : hasBottom' = b
  /\ \E a \in AppIds :
       /\ _appId' = a
       /\ sent' = Append(sent, ShakePkt(a))
  /\ linkUp' = TRUE
  /\ UNCHANGED <<_blePort, _traceId, _spanId, _pending, display, rx, rxPath,
                 wclock, reqClock>>

\* the callback given to hmBle.createConnect, run on the buffer arr
Receive(arr) ==
  /\ phase = "running"
  /\ linkUp
  /\ rx' = arr
  /\ IF Len(arr) < OuterLen
       THEN /\ rxPath' = "short"
            /\ UNCHANGED <<_blePort, _traceId, _spanId, _pending, display,
                           sent, reqClock>>
     ELSE IF RxOuterType(arr) = 1
       THEN /\ _traceId < TraceId0 + MaxRequests
            /\ _blePort' = RxPort2(arr)
            /\ _traceId' = _traceId + 1
            /\ _pending' = _pending \cup {_traceId + 1}
            /\ _spanId' = _spanId + 1
            /\ sent' = Append(sent, _sendJson(_traceId + 1, ValFetchAll, 1,
                                              _spanId + 1, RxPort2(arr),
                                              _appId, wclock))
            /\ reqClock' = wclock
            /\ rxPath' = "shake"
            /\ UNCHANGED display
     ELSE IF RxHasInner(arr)
       THEN LET r == RxInner(arr, _pending, display, hasBottom) IN
            /\ _pending' = r.pending
            /\ display' = r.display
            /\ rxPath' = r.path
            /\ UNCHANGED <<_blePort, _traceId, _spanId, sent, reqClock>>
     ELSE /\ rxPath' = "other"
          /\ UNCHANGED <<_blePort, _traceId, _spanId, _pending, display,
                         sent, reqClock>>
  /\ UNCHANGED <<_appId, hasBottom, phase, linkUp, wclock>>

\* the MINUTEEND listener registered in build: a minute has passed
MinuteEnd ==
  /\ phase = "running"
  /\ wclock < WClock0 + MaxMinutes * 60000
  /\ wclock' = wclock + 60000
  /\ UNCHANGED <<_blePort, _traceId, _spanId, _pending, _appId, display,
                 hasBottom, phase, linkUp, sent, rx, rxPath, reqClock>>

\* WatchFace.onDestroy: the listeners are removed, hmBle.disConnect()
Destroy ==
  /\ phase = "running"
  /\ phase' = "destroyed"
  /\ linkUp' = FALSE
  /\ UNCHANGED <<_blePort, _traceId, _spanId, _pending, _appId, display,
                 hasBottom, sent, rx, rxPath, wclock, reqClock>>

\* nothing decoded yet
NotDecoded == [ok |-> FALSE, undecoded |-> TRUE]

CodecIdle == env = NoEnvelope /\ wire = <<>> /\ dec = NotDecoded

\* --------------------------------------------------------- codec round trip
\* the envelopes the round trip is tried on
Envelopes ==
  [kind : {4, 5}, channelId : {0, 7, 20, 300}, appId : AppIds,
   traceId : {TraceId0 + 1, 70000}, spanId : {SpanId0 + 1},
   payloadKind : {1, 2, 3},
   payload : {TxtFetchAll, TxtPushBag, TxtRespError}, ts : {0, 123456}]

\* the bytes the watch sends for envelope e: _buildInner wrapped by
\* _buildPkt, as in _sendJson
Encode(e) ==
  _buildPkt(e.kind, e.channelId, e.appId,
            _buildInner(e.traceId, Len(e.payload), e.payload, e.payloadKind,
                        e.spanId, e.ts))

WatchIdle == WatchInit

CodecInit ==
  /\ env \in Envelopes
  /\ wire = <<>>
  /\ dec = NotDecoded

DoEncode ==
  /\ wire = <<>>
  /\ wire' = Encode(env)
  /\ UNCHANGED <<env, dec>>

DoDecode ==
  /\ wire # <<>>
  /\ dec = NotDecoded
  /\ dec' = RxDecode(wire)
  /\ UNCHANGED <<env, wire>>

\* ============================================================ app-side
\* ---------------------------------------------------------------- bounds
\* request handlers that can be in progress at once (SpecHostConc)
NumHandlers == 2
\* requests the app-side service receives in one run, one at a time
\* (SpecHost, SpecHostCache)
MaxHostRequests == 2
MaxCacheRequests == 2
\* auth failures (HTTP 500) the readings endpoint reports to one request
MaxAuthFailures == 2
\* advances of the phone clock in one run (SpecHostCache)
MaxTicks == 2

\* ------------------------------------------------------------- constants
GLUCOSE_CACHE_MS == 5 * 60 * 1000
WEATHER_CACHE_MS == 30 * 60 * 1000
ASTRO_CACHE_MS   == 24 * 60 * 60 * 1000

\* null where an object is expected
Null == [null |-> TRUE]
\* NaN as parseFloat yields it, and null where a number is expected
NaN     == -1000001
NullNum == -1000002

Handlers == 1..NumHandlers

VARIABLES
  sessionId,         \* let sessionId; 0 is null
  lastGlucoseFetch,
  lastWeatherFetch,
  lastAstroFetch,
  cachedGlucose,
  cachedWeather,
  cachedAstro,
  cachedLat,
  cachedLon,
  settings,          \* settingsStorage
  hnow,              \* Date.now() on the phone
  ticks,             \* clock advances so far
  calls,             \* upstream calls issued so far, per endpoint
  nreq,              \* requests received so far
  hs                 \* per handler: position and locals of the request
                     \* callback in progress

hvars == <<sessionId, lastGlucoseFetch, lastWeatherFetch, lastAstroFetch,
           cachedGlucose, cachedWeather, cachedAstro, cachedLat, cachedLon,
           settings, hnow, ticks, calls, nreq, hs>>

\* the settings the user may have stored; '' is an unset key
FullSettings ==
  [dexcom_username |-> "user", dexcom_password |-> "pw",
   owm_api_key |-> "key", ipgeo_api_key |-> "key", latitude |-> "52",
   longitude |-> "13"]
SettingsChoices ==
  { FullSettings,
    [FullSettings EXCEPT !.dexcom_password = ""],
    [FullSettings EXCEPT !.owm_api_key = "", !.ipgeo_api_key = ""],
    [FullSettings EXCEPT !.latitude = "", !.longitude = ""],
    [FullSettings EXCEPT !.latitude = "0"] }

\* function getSetting(key, fallback)
getSetting(s, key, fallback) == IF key \in DOMAIN s THEN s[key] ELSE fallback

\* parseFloat(str) on the coordinate texts of SettingsChoices
ParseCoord(str) ==
  CASE str = "52" -> 52
    [] str = "13" -> 13
    [] str = "0"  -> 0
    [] OTHER      -> NaN

\* ToBoolean of a coordinate: null, NaN and 0 are falsy
CoordTruthy(x) == x # NullNum /\ x # NaN /\ x # 0

\* the local clock as minutes since midnight, from Date.now(); the phone's
\* time zone is taken as UTC
MinuteOfDay(now) == (now \div 60000) % 1440

\* what the astronomy endpoint returns: times as minutes since midnight,
\* which order like the zero-padded "HH:MM" strings they stand for
AstroData ==
  [sunrise |-> 6 * 60, sunset |-> 20, moonrise |-> 23 * 60 + 10,
   moonset |-> 6 * 60 + 45, moon_phase |-> "Full Moon"]

\* function parseMoonPhase(str) on the labels of the endpoint
parseMoonPhase(str) ==
  CASE str = "New Moon"        -> 0
    [] str = "Waxing Crescent" -> 1
    [] str = "First Quarter"   -> 2
    [] str = "Waxing Gibbous"  -> 3
    [] str = "Full Moon"       -> 4
    [] str = "Waning Gibbous"  -> 5
    [] str = "Third Quarter"   -> 6
    [] str = "Last Quarter"    -> 6
    [] str = "Waning Crescent" -> 7
    [] OTHER                   -> 0

\* the result object fetchAstronomy builds from the endpoint's data at
\* local time nowMin
AstroResult(data, nowMin) ==
  LET sunIsRising  == nowMin < data.sunset
      moonIsRising == IF data.moonrise < data.moonset
                        THEN nowMin < data.moonrise
                        ELSE nowMin < data.moonrise /\ nowMin > data.moonset
  IN  [sunTime |-> IF sunIsRising THEN data.sunrise ELSE data.sunset,
       sunIsRising |-> sunIsRising,
       moonTime |-> IF moonIsRising THEN data.moonrise ELSE data.moonset,
       moonIsRising |-> moonIsRising,
       moonPhase |-> parseMoonPhase(data.moon_phase)]

\* function formatDelta(delta, units) for units 'mgdl' and an integer delta
formatDelta(delta) == (IF delta > 0 THEN "+" ELSE "") \o ToString(delta)

\* the readings the n-th readings call returns: latest first, taken at
\* time now
Readings(n, now) == <<[Value |-> 100 + n, WT |-> now], [Value |-> 98 + n]>>

\* the result object fetchGlucose builds from readings (bg_units is left
\* at its default 'mgdl')
GlucoseResult(readings) ==
  [value |-> ToString(readings[1].Value),
   delta |-> formatDelta(readings[1].Value - readings[2].Value),
   timestamp |-> readings[1].WT]

\* the result object fetchWeather builds from the n-th weather call
WeatherResult(n) ==
  [temp |-> 20 + n, windSpeed |-> 4, windUnit |-> "m/s", hasRain |-> FALSE]

\* CacheValid with the age compared by <= instead of <
CacheValid_Inclusive(cached, now, last, ttl) ==
  cached # Null /\ (now - last) <= ttl

\* cached && (now - last) < ttl
CacheValid(cached, now, last, ttl) == cached # Null /\ (now - last) < ttl

\* a handler that is not running
IdleHandler ==
  [pc |-> "idle", action |-> "", lat |-> NullNum, lon |-> NullNum, now |-> 0,
   glucose |-> Null, weather |-> Null, astronomy |-> Null,
   gOut |-> "none", wOut |-> "none", aOut |-> "none",
   reads |-> 0, logins |-> 0, auth500 |-> 0, wCalls |-> 0, aCalls |-> 0,
   token |-> 0, response |-> Null]

\* the app-side state as one record, for the run-to-completion steps
HostState ==
  [sessionId |-> sessionId, lastGlucoseFetch |-> lastGlucoseFetch,
   lastWeatherFetch |-> lastWeatherFetch, lastAstroFetch |-> lastAstroFetch,
   cachedGlucose |-> cachedGlucose, cachedWeather |-> cachedWeather,
   cachedAstro |-> cachedAstro, cachedLat |-> cachedLat,
   cachedLon |-> cachedLon, calls |-> calls, hs |-> hs]

Commit(st) ==
  /\ sessionId' = st.sessionId
  /\ lastGlucoseFetch' = st.lastGlucoseFetch
  /\ lastWeatherFetch' = st.lastWeatherFetch
  /\ lastAstroFetch' = st.lastAstroFetch
  /\ cachedGlucose' = st.cachedGlucose
  /\ cachedWeather' = st.cachedWeather
  /\ cachedAstro' = st.cachedAstro
  /\ cachedLat' = st.cachedLat
  /\ cachedLon' = st.cachedLon
  /\ calls' = st.calls
  /\ hs' = st.hs

\* ---------------------------------------- the request callback, by segment
\* Each operator below is the code that runs from one point of the callback
\* to its next network await (or to its end); st is the HostState before,
\* h the handler, now the value of Date.now(); the result is the HostState
\* after.

\* Math.round(x / 60000) for x >= 0
RoundMinutes(x) == (x + 30000) \div 60000

\* Snapshot with the weather and astronomy fields dropped when the glucose
\* fetch failed
Snapshot_GlucoseGates(g, w, a, now) ==
  [data |->
    [type |-> "all",
     glucose |-> IF g # Null
                   THEN [value |-> g.value, delta |-> g.delta,
                         timeDelta |-> IF g.timestamp # 0
                                         THEN RoundMinutes(now - g.timestamp)
                                         ELSE NullNum]
                   ELSE Null,
     weather |-> IF w # Null /\ g # Null
                   THEN [temp |-> w.temp, wind |-> w.windSpeed,
                         windUnit |-> w.windUnit, hasRain |-> w.hasRain]
                   ELSE Null,
     astronomy |-> IF g # Null THEN a ELSE Null]]

\* the object given to ctx.response for the fetched values g, w, a
Snapshot(g, w, a, now) ==
  [data |->
    [type |-> "all",
     glucose |-> IF g # Null
                   THEN [value |-> g.value, delta |-> g.delta,
                         timeDelta |-> IF g.timestamp # 0
                                         THEN RoundMinutes(now - g.timestamp)
                                         ELSE NullNum]
                   ELSE Null,
     weather |-> IF w # Null
                   THEN [temp |-> w.temp, wind |-> w.windSpeed,
                         windUnit |-> w.windUnit, hasRain |-> w.hasRain]
                   ELSE Null,
     astronomy |-> a]]

ErrorResponse(text) == [data |-> [error |-> text]]

\* lines 349-371: the response after the three awaits
Respond(st, h, now) ==
  LET H == st.hs[h] IN
  [st EXCEPT !.hs[h].pc = "done",
             !.hs[h].response = Snapshot(H.glucose, H.weather, H.astronomy,
                                         now)]

\* fetchAstronomy returns val
A_return(st, h, val, outcome, now) ==
  Respond([st EXCEPT !.hs[h].astronomy = val, !.hs[h].aOut = outcome], h, now)

\* fetchAstronomy(lat, lon) up to its await
A_enter(st, h, now, s) ==
  LET H == st.hs[h] IN
  IF CacheValid(st.cachedAstro, now, st.lastAstroFetch, ASTRO_CACHE_MS)
    THEN A_return(st, h, st.cachedAstro, "cache", now)
  ELSE IF getSetting(s, "ipgeo_api_key", "") = ""
          \/ ~CoordTruthy(H.lat) \/ ~CoordTruthy(H.lon)
    THEN A_return(st, h, Null, "unavailable", now)
  ELSE [st EXCEPT !.hs[h].pc = "a_wait", !.hs[h].now = now,
                  !.hs[h].aCalls = @ + 1]

\* fetchWeather returns val; the callback goes on to fetchAstronomy
W_return(st, h, val, outcome, now, s) ==
  A_enter([st EXCEPT !.hs[h].weather = val, !.hs[h].wOut = outcome], h, now, s)

\* fetchWeather(lat, lon) up to its await
W_enter(st, h, now, s) ==
  LET H == st.hs[h] IN
  IF CacheValid(st.cachedWeather, now, st.lastWeatherFetch, WEATHER_CACHE_MS)
    THEN W_return(st, h, st.cachedWeather, "cache", now, s)
  ELSE IF getSetting(s, "owm_api_key", "") = ""
    THEN W_return(st, h, Null, "unavailable", now, s)
  ELSE IF ~(CoordTruthy(H.lat) /\ CoordTruthy(H.lon))
    THEN W_return(st, h, Null, "unavailable", now, s)
  ELSE [st EXCEPT !.hs[h].pc = "w_wait", !.hs[h].now = now,
                  !.hs[h].wCalls = @ + 1, !.calls.weather = @ + 1]

\* fetchGlucose returns val; the callback goes on to fetchWeather
G_return(st, h, val, outcome, now, s) ==
  W_enter([st EXCEPT !.hs[h].glucose = val, !.hs[h].gOut = outcome], h, now, s)

\* the readings call of fetchGlucose, lines 115-120, with the current
\* sessionId
G_read(st, h) ==
  [st EXCEPT !.hs[h].pc = "g_read", !.hs[h].token = st.sessionId,
             !.hs[h].reads = @ + 1, !.calls.read = @ + 1]

\* the login call of dexcomLogin, lines 68-82; pc tells which of the two
\* call sites of fetchGlucose awaits it
G_login(st, h, pc) ==
  [st EXCEPT !.hs[h].pc = pc, !.hs[h].logins = @ + 1]

\* fetchGlucose() up to its first await
G_enter(st, h, now, s) ==
  IF CacheValid(st.cachedGlucose, now, st.lastGlucoseFetch, GLUCOSE_CACHE_MS)
    THEN G_return(st, h, st.cachedGlucose, "cache", now, s)
  ELSE IF getSetting(s, "dexcom_username", "") = ""
          \/ getSetting(s, "dexcom_password", "") = ""
    THEN G_return(st, h, Null, "unavailable", now, s)
  ELSE LET st1 == [st EXCEPT !.hs[h].now = now] IN
       IF st.sessionId = 0 THEN G_login(st1, h, "g_login")
       ELSE G_read(st1, h)

\* function getLocation(): cachedLat, cachedLon after it
getLocation(st, s) ==
  LET lat == ParseCoord(getSetting(s, "latitude", ""))
      lon == ParseCoord(getSetting(s, "longitude", ""))
  IN  IF lat # NaN /\ lon # NaN
        THEN [st EXCEPT !.cachedLat = lat, !.cachedLon = lon]
        ELSE st

\* the request callback from its start to its first await
OnRequest(st, h, action, now, s) ==
  LET st0 == [st EXCEPT !.hs[h] = [IdleHandler EXCEPT !.action = action]] IN
  IF action \in {"fetchAll", "fetchGlucose"}
    THEN LET st1 == getLocation(st0, s)
             st2 == [st1 EXCEPT !.hs[h].lat = st1.cachedLat,
                                !.hs[h].lon = st1.cachedLon]
         IN  G_enter(st2, h, now, s)
    ELSE [st0 EXCEPT !.hs[h].pc = "done",
                     !.hs[h].response = ErrorResponse("unknown action")]

\* the catch block without the reset of sessionId
G_catch_KeepSession(st, h, outcome, now, s) ==
  G_return(st, h, Null, outcome, now, s)

\* the catch block of fetchGlucose
G_catch(st, h, outcome, now, s) ==
  G_return([st EXCEPT !.sessionId = 0], h, Null, outcome, now, s)

\* the login awaited at line 112 completes: out is "ok" with a fresh
\* token, or "status" (not 200) or "neterr" (fetch rejects)
OnLogin(st, h, out, tok, now, s) ==
  IF out = "ok"
    THEN G_read([st EXCEPT !.sessionId = tok, !.calls.tokens = tok], h)
  ELSE G_catch(st, h, "throw", now, s)

\* the login awaited at line 124 completes
OnRelogin(st, h, out, tok, now, s) ==
  IF out = "ok"
    THEN G_enter([st EXCEPT !.sessionId = tok, !.calls.tokens = tok], h, now,
                 s)
  ELSE G_catch(st, h, "throw", now, s)

\* the readings call awaited at line 120 completes: out is "ok", "auth500",
\* "status" (neither 200 nor 500), "empty" (no readings), "badjson" or
\* "neterr"
OnReadings(st, h, out, now, s) ==
  LET H == st.hs[h] IN
  CASE out = "auth500" ->
         G_login([st EXCEPT !.hs[h].auth500 = @ + 1], h, "g_relogin")
    [] out = "status" -> G_return(st, h, Null, "status", now, s)
    [] out = "empty"  -> G_return(st, h, Null, "empty", now, s)
    [] out = "ok" ->
         LET result == GlucoseResult(Readings(st.calls.read, now)) IN
         G_return([st EXCEPT !.cachedGlucose = result,
                             !.lastGlucoseFetch = H.now],
                  h, result, "ok", now, s)
    [] OTHER -> G_catch(st, h, "throw", now, s)

\* OnWeather that stamps lastWeatherFetch when the status is not 200
OnWeather_StampsFailure(st, h, out, now, s) ==
  LET H == st.hs[h] IN
  CASE out = "ok" ->
         LET result == WeatherResult(st.calls.weather) IN
         W_return([st EXCEPT !.cachedWeather = result,
                             !.lastWeatherFetch = H.now],
                  h, result, "ok", now, s)
    [] out = "status" ->
         W_return([st EXCEPT !.lastWeatherFetch = H.now], h, Null, "status",
                  now, s)
    [] OTHER -> W_return(st, h, Null, "throw", now, s)

\* the weather call awaited at line 216 completes: out is "ok", "status",
\* "badjson" or "neterr"
OnWeather(st, h, out, now, s) ==
  LET H == st.hs[h] IN
  CASE out = "ok" ->
         LET result == WeatherResult(st.calls.weather) IN
         W_return([st EXCEPT !.cachedWeather = result,
                             !.lastWeatherFetch = H.now],
                  h, result, "ok", now, s)
    [] out = "status" -> W_return(st, h, Null, "status", now, s)
    [] OTHER -> W_return(st, h, Null, "throw", now, s)

\* the astronomy call awaited at line 261 completes
OnAstronomy(st, h, out, now) ==
  LET H == st.hs[h] IN
  CASE out = "ok" ->
         LET result == AstroResult(AstroData, MinuteOfDay(now)) IN
         A_return([st EXCEPT !.cachedAstro = result,
                             !.lastAstroFetch = H.now],
                  h, result, "ok", now)
    [] out = "status" -> A_return(st, h, Null, "status", now)
    [] OTHER -> A_return(st, h, Null, "throw", now)

\* --------------------------------------------------------- host actions
\* Date.now() on the phone when the service starts
HNow0 == 600000

\* the amounts by which the phone clock advances between two events
TickSteps == {1, GLUCOSE_CACHE_MS - 1, WEATHER_CACHE_MS - 1,
              ASTRO_CACHE_MS - 1}

LoginOutcomes    == {"ok", "status", "neterr"}
ReadingsOutcomes == {"ok", "auth500", "status", "empty", "badjson", "neterr"}
WeatherOutcomes  == {"ok", "status", "badjson", "neterr"}
AstroOutcomes    == {"ok", "status", "badjson", "neterr"}
RequestActions   == {"fetchAll", "bogus"}

\* the outcomes drawn where the interleaving or the clock is the subject:
\* the calls succeed, or the session is refused, or the network fails
CoreLoginOutcomes    == {"ok", "neterr"}
CoreReadingsOutcomes == {"ok", "auth500", "neterr"}
CoreWeatherOutcomes  == {"ok"}
CoreAstroOutcomes    == {"ok"}
ConcReadingsOutcomes == CoreReadingsOutcomes \ {"auth500"}

HostInit ==
  /\ sessionId = 0
  /\ lastGlucoseFetch = 0
  /\ lastWeatherFetch = 0
  /\ lastAstroFetch = 0
  /\ cachedGlucose = Null
  /\ cachedWeather = Null
  /\ cachedAstro = Null
  /\ cachedLat = NullNum
  /\ cachedLon = NullNum
  /\ settings \in SettingsChoices
  /\ hnow = HNow0
  /\ ticks = 0
  /\ calls = [read |-> 0, weather |-> 0, tokens |-> 0]
  /\ nreq = 0
  /\ hs = [h \in Handlers |-> IdleHandler]

\* messageBuilder delivers a request; the callback runs to its first await
HostRequest(h, action, max) ==
  /\ hs[h].pc \in {"idle", "done"}
  /\ nreq < max
  /\ nreq' = nreq + 1
  /\ Commit(OnRequest(HostState, h, action, hnow, settings))
  /\ UNCHANGED <<settings, hnow, ticks>>

\* the login call of handler h completes
LoginDone(h, out) ==
  /\ hs[h].pc = "g_login"
  /\ Commit(OnLogin(HostState, h, out, calls.tokens + 1, hnow, settings))
  /\ UNCHANGED <<settings, hnow, ticks, nreq>>

\* the re-login call of handler h completes
ReloginDone(h, out) ==
  /\ hs[h].pc = "g_relogin"
  /\ Commit(OnRelogin(HostState, h, out, calls.tokens + 1, hnow, settings))
  /\ UNCHANGED <<settings, hnow, ticks, nreq>>

\* the readings call of handler h completes
ReadingsDone(h, out) ==
  /\ hs[h].pc = "g_read"
  /\ out = "auth500" => hs[h].auth500 < MaxAuthFailures
  /\ Commit(OnReadings(HostState, h, out, hnow, settings))
  /\ UNCHANGED <<settings, hnow, ticks, nreq>>

\* the weather call of handler h completes
WeatherDone(h, out) ==
  /\ hs[h].pc = "w_wait"
  /\ Commit(OnWeather(HostState, h, out, hnow, settings))
  /\ UNCHANGED <<settings, hnow, ticks, nreq>>

\* the astronomy call of handler h completes
AstroDone(h, out) ==
  /\ hs[h].pc = "a_wait"
  /\ Commit(OnAstronomy(HostState, h, out, hnow))
  /\ UNCHANGED <<settings, hnow, ticks, nreq>>

\* time passes on the phone
Tick(d, max) ==
  /\ ticks < max
  /\ ticks' = ticks + 1
  /\ hnow' = hnow + d
  /\ UNCHANGED <<sessionId, lastGlucoseFetch, lastWeatherFetch,
                 lastAstroFetch, cachedGlucose, cachedWeather, cachedAstro,
                 cachedLat, cachedLon, settings, calls, nreq, hs>>

HostIdle ==
  /\ sessionId = 0 /\ lastGlucoseFetch = 0 /\ lastWeatherFetch = 0
  /\ lastAstroFetch = 0 /\ cachedGlucose = Null /\ cachedWeather = Null
  /\ cachedAstro = Null /\ cachedLat = NullNum /\ cachedLon = NullNum
  /\ settings = [dexcom_username |-> ""] /\ hnow = HNow0 /\ ticks = 0
  /\ calls = [read |-> 0, weather |-> 0, tokens |-> 0]
  /\ nreq = 0 /\ hs = [h \in Handlers |-> IdleHandler]


\* the user edits the settings in the Zepp app: settingsStorage holds s
\* from now on
ChangeSettings(s) ==
  /\ s # settings
  /\ settings' = s
  /\ UNCHANGED <<sessionId, lastGlucoseFetch, lastWeatherFetch,
                 lastAstroFetch, cachedGlucose, cachedWeather, cachedAstro,
                 cachedLat, cachedLon, hnow, ticks, calls, nreq, hs>>

\* the source whose upstream call handler h awaits
AwaitedSource(h) ==
  CASE hs[h].pc \in {"g_login", "g_relogin", "g_read"} -> "glucose"
    [] hs[h].pc = "w_wait" -> "weather"
    [] hs[h].pc = "a_wait" -> "astronomy"
    [] OTHER -> "none"

\* the upstream call handler h awaits is one that never completes
Hung(h) ==
  \/ AwaitedSource(h) = "glucose" /\ hs[h].gOut = "hung"
  \/ AwaitedSource(h) = "weather" /\ hs[h].wOut = "hung"
  \/ AwaitedSource(h) = "astronomy" /\ hs[h].aOut = "hung"

\* the server behind the call handler h awaits stops answering: the
\* promise of fetch() stays pending from now on
CallHangs(h) ==
  /\ AwaitedSource(h) # "none"
  /\ ~Hung(h)
  /\ hs' = [hs EXCEPT ![h] =
              CASE AwaitedSource(h) = "glucose" -> [@ EXCEPT !.gOut = "hung"]
                [] AwaitedSource(h) = "weather" -> [@ EXCEPT !.wOut = "hung"]
                [] OTHER -> [@ EXCEPT !.aOut = "hung"]]
  /\ UNCHANGED <<sessionId, lastGlucoseFetch, lastWeatherFetch,
                 lastAstroFetch, cachedGlucose, cachedWeather, cachedAstro,
                 cachedLat, cachedLon, settings, hnow, ticks, calls, nreq>>

\* an upstream call of handler 1 that has not hung completes
Completes ==
  /\ ~Hung(1)
  /\ \/ \E o \in CoreLoginOutcomes : LoginDone(1, o)
     \/ \E o \in CoreLoginOutcomes : ReloginDone(1, o)
     \/ \E o \in CoreReadingsOutcomes : ReadingsDone(1, o)
     \/ \E o \in CoreWeatherOutcomes : WeatherDone(1, o)
     \/ \E o \in CoreAstroOutcomes : AstroDone(1, o)
\* ------------------------------------------------- functions on their own
\* the argument a function is run on, and what it returned
VARIABLES input, output

pvars == <<input, output>>

\* the function has not run yet
NotRun == [ran |-> FALSE]

PureIdle == input = NotRun /\ output = NotRun

\* ---- applyAll on partial snapshots
Sections == {"glucose", "weather", "astronomy", "settings"}

\* the widget properties each section's applicator writes
SectionFields ==
  [glucose   |-> {"glucose", "glucoseColor", "delta", "timeDelta"},
   weather   |-> {"temp", "wind"},
   astronomy |-> {"sunTime", "moonTime", "moonPhase"},
   settings  |-> {"garbageSrc", "garbageVisible"}]

\* a value for each section that differs from what either display shows
SectionValue ==
  [glucose   |-> JObj([value |-> JStr("55"), delta |-> JStr("-3"),
                       timeDelta |-> JNum(7)]),
   weather   |-> JObj([temp |-> JNum(9), tempUnit |-> JStr("C"),
                       wind |-> JNum(12)]),
   astronomy |-> JObj([sunTime |-> JStr("06:10"), moonTime |-> JStr("01:30"),
                       moonPhase |-> JNum(2)]),
   settings  |-> JObj([garbageBag |-> JStr("G")])]

\* the snapshot in which section s is "absent", "null" or "present" as c[s]
SnapshotOf(c) ==
  JObj([s \in {x \in Sections : c[x] # "absent"} |->
          IF c[s] = "null" THEN JNull ELSE SectionValue[s]])

Snapshots ==
  {SnapshotOf(c) : c \in [Sections -> {"absent", "null", "present"}]}

\* the display after a full snapshot and a bag push were applied
DisplayShown ==
  applySettings(applyAll(DisplayInit, Get(ValRespFull, "data"), TRUE),
                ValPushBag, TRUE)

ApplyInit ==
  /\ input \in [d : {DisplayInit, DisplayShown}, msg : Snapshots,
                bottom : BOOLEAN]
  /\ output = NotRun

\* applyAll(msg) runs on the display input.d
RunApplyAll ==
  /\ output = NotRun
  /\ output' = [ran |-> TRUE,
                d |-> applyAll(input.d, input.msg, input.bottom)]
  /\ UNCHANGED input

\* ---- the sun and moon rule of fetchAstronomy on "HH:MM" strings
\* the zero-padded "HH:MM" text of minute m of the day, as code units
HHMM(m) ==
  <<48 + (m \div 600), 48 + ((m \div 60) % 10), 58,
    48 + ((m % 60) \div 10), 48 + (m % 10)>>

\* the minute of the day an "HH:MM" text stands for
MinutesOf(str) ==
  ((str[1] - 48) * 10 + (str[2] - 48)) * 60 + (str[4] - 48) * 10
  + (str[5] - 48)

\* a < b on JavaScript strings: the code units decide at the first
\* position where the strings differ; a proper prefix is smaller
StrLess(a, b) ==
  \E i \in 1..(Min(Len(a), Len(b)) + 1) :
    /\ \A j \in 1..(i - 1) : a[j] = b[j]
    /\ IF i > Len(a) THEN i <= Len(b)
       ELSE i <= Len(b) /\ a[i] < b[i]

\* sunIsRising with nowStr <= sunset
sunIsRising_Inclusive(nowStr, sunset) == ~StrLess(sunset, nowStr)

\* const sunIsRising = nowStr < sunset
sunIsRising(nowStr, sunset) == StrLess(nowStr, sunset)

\* moonIsRising with the two conditions of the inverted day joined by "or"
moonIsRising_Either(nowStr, moonrise, moonset) ==
  IF StrLess(moonrise, moonset)
    THEN StrLess(nowStr, moonrise)
    ELSE StrLess(nowStr, moonrise) \/ StrLess(moonset, nowStr)

\* const moonIsRising = moonrise < moonset
\*   ? nowStr < moonrise : nowStr < moonrise && nowStr > moonset
moonIsRising(nowStr, moonrise, moonset) ==
  IF StrLess(moonrise, moonset)
    THEN StrLess(nowStr, moonrise)
    ELSE StrLess(nowStr, moonrise) /\ StrLess(moonset, nowStr)

\* the sun and moon fields of the result object, from the endpoint's data
\* and nowStr
SunMoon(data, nowStr) ==
  LET sunUp  == sunIsRising(nowStr, data.sunset)
      moonUp == moonIsRising(nowStr, data.moonrise, data.moonset)
  IN  [sunTime |-> IF sunUp THEN data.sunrise ELSE data.sunset,
       sunIsRising |-> sunUp,
       moonTime |-> IF moonUp THEN data.moonrise ELSE data.moonset,
       moonIsRising |-> moonUp]

\* minutes of the day that the clock and the endpoint's times are drawn
\* from: both sides of 10:00, of midnight and of the times of the examples
NowMinutes      == {0, 405, 599, 600, 1082, 1140, 1390, 1439}
SunsetMinutes   == {599, 1082, 1140}
MoonriseMinutes == {0, 405, 600, 1390}
MoonsetMinutes  == {405, 599, 1390, 1439}

AstroInit ==
  /\ input \in [nowStr   : {HHMM(m) : m \in NowMinutes},
                sunrise  : {HHMM(405)},
                sunset   : {HHMM(m) : m \in SunsetMinutes},
                moonrise : {HHMM(m) : m \in MoonriseMinutes},
                moonset  : {HHMM(m) : m \in MoonsetMinutes}]
  /\ output = NotRun

\* fetchAstronomy computes the sun and moon fields
RunSunMoon ==
  /\ output = NotRun
  /\ output' = SunMoon(input, input.nowStr)
  /\ UNCHANGED input

\* ---- the garbage bin schedule (parseDays, computeGarbageBag)
\* texts are sequences of code units: "0".."9" are 48..57, "," is 44 and
\* " " is 32
IsDigit(c) == c >= 48 /\ c <= 57

\* str.trim() for texts whose only white space is " "
trim(str) ==
  LET solid == {i \in 1..Len(str) : str[i] # 32}
  IN  IF solid = {} THEN <<>>
      ELSE SubSeq(str, CHOOSE i \in solid : \A j \in solid : i <= j,
                       CHOOSE i \in solid : \A j \in solid : i >= j)

\* the value of a text of decimal digits
RECURSIVE DecValue(_)
DecValue(ds) ==
  IF ds = <<>> THEN 0
  ELSE DecValue(SubSeq(ds, 1, Len(ds) - 1)) * 10 + (ds[Len(ds)] - 48)

\* parseInt(str, 10) for unsigned texts: leading white space is skipped,
\* the longest run of digits is read, NaN when there is none
parseInt(str) ==
  LET solid == {i \in 1..Len(str) : str[i] # 32}
      from  == IF solid = {} THEN Len(str) + 1
               ELSE CHOOSE i \in solid : \A j \in solid : i <= j
      rest  == SubSeq(str, from, Len(str))
      n     == CHOOSE k \in 0..Len(rest) :
                 /\ \A i \in 1..k : IsDigit(rest[i])
                 /\ k < Len(rest) => ~IsDigit(rest[k + 1])
  IN  IF n = 0 THEN NaN ELSE DecValue(SubSeq(rest, 1, n))

\* csv.split(',')
RECURSIVE split(_)
split(str) ==
  LET commas == {i \in 1..Len(str) : str[i] = 44}
  IN  IF commas = {} THEN <<str>>
      ELSE LET i == CHOOSE c \in commas : \A d \in commas : c <= d
           IN  <<SubSeq(str, 1, i - 1)>> \o split(SubSeq(str, i + 1, Len(str)))

\* function parseDays(csv)
parseDays(csv) ==
  IF csv = <<>> THEN {}
  ELSE LET toks == split(csv)
       IN  {n \in {parseInt(trim(toks[i])) : i \in 1..Len(toks)} : n # NaN}

\* function getSetting(key, fallback) of the schedule listing: a missing
\* or empty item gives the fallback
getSettingOr(s, key, fallback) ==
  IF key \in DOMAIN s /\ s[key] # <<>> THEN s[key] ELSE fallback

\* Date.prototype.getDay() (0 = Sunday .. 6 = Saturday) on a day whose
\* Monday-based index is weekday
getDay(weekday) == (weekday + 1) % 7

\* function computeGarbageBag(), at local weekday getDay() = day and local
\* hour getHours() = hours; "none" stands for null
computeGarbageBag(s, day, hours) ==
  LET wday0      == (day + 6) % 7
      parsed     == parseInt(getSettingOr(s, "garbage_hour", <<57>>))
      pickupHour == IF parsed = NaN \/ parsed = 0 THEN 9 ELSE parsed
      wday       == IF hours >= pickupHour THEN (wday0 + 1) % 7 ELSE wday0
      organic    == parseDays(getSettingOr(s, "garbage_organic", <<>>))
      grey       == parseDays(getSettingOr(s, "garbage_grey", <<>>))
      black      == parseDays(getSettingOr(s, "garbage_black", <<>>))
  IN  IF wday \in organic THEN "O"
      ELSE IF wday \in grey THEN "G"
      ELSE IF wday \in black THEN "B"
      ELSE "none"

\* cutoff hours with the text stored for them under garbage_hour; the
\* empty text is the unset item, for which the cutoff is the default 9
CutoffChoices ==
  { [hour |-> 0,  text |-> <<48>>],
    [hour |-> 8,  text |-> <<56>>],
    [hour |-> 9,  text |-> <<57>>],
    [hour |-> 9,  text |-> <<>>],
    [hour |-> 12, text |-> <<49, 50>>],
    [hour |-> 23, text |-> <<50, 51>>] }

\* bucket sets with the comma-separated text stored for them
OrganicChoices ==
  { [days |-> {},     csv |-> <<>>],
    [days |-> {0, 3}, csv |-> <<48, 44, 51>>],
    [days |-> {1},    csv |-> <<49>>] }
GreyChoices ==
  { [days |-> {},     csv |-> <<>>],
    [days |-> {1, 4}, csv |-> <<49, 44, 32, 52>>],
    [days |-> {6},    csv |-> <<54>>] }
BlackChoices ==
  { [days |-> {},     csv |-> <<>>],
    [days |-> {0},    csv |-> <<48>>],
    [days |-> {5, 6}, csv |-> <<53, 44, 54>>] }

\* the settings storage holding the chosen cutoff and buckets
ScheduleSettings(in) ==
  [garbage_hour    |-> in.cutoff.text,
   garbage_organic |-> in.organic.csv,
   garbage_grey    |-> in.grey.csv,
   garbage_black   |-> in.black.csv]

ScheduleInit ==
  /\ input \in [weekday : 0..6, hour : 0..23, cutoff : CutoffChoices,
                organic : OrganicChoices, grey : GreyChoices,
                black : BlackChoices]
  /\ output = NotRun

\* computeGarbageBag runs on the stored settings at the chosen day and hour
RunComputeGarbageBag ==
  /\ output = NotRun
  /\ output' = [bag |-> computeGarbageBag(ScheduleSettings(input),
                                          getDay(input.weekday), input.hour)]
  /\ UNCHANGED input

\* --------------------------------------------------------- specifications
vars == <<wvars, cvars, hvars, pvars>>

InitWatch == WatchInit /\ CodecIdle /\ HostIdle /\ PureIdle
NextWatch ==
  \/ Build /\ UNCHANGED <<cvars, hvars, pvars>>
  \/ (\E arr \in InboundBuffers : Receive(arr)) /\ UNCHANGED <<cvars, hvars, pvars>>
  \/ MinuteEnd /\ UNCHANGED <<cvars, hvars, pvars>>
  \/ Destroy /\ UNCHANGED <<cvars, hvars, pvars>>
SpecWatch == InitWatch /\ [][NextWatch]_vars

\* the watch between two MINUTEEND events: the receive callback runs on
\* whatever the link delivers while the clock reading stays the same
NextWatchLink ==
  \/ Build /\ UNCHANGED <<cvars, hvars, pvars>>
  \/ (\E arr \in InboundBuffers : Receive(arr)) /\ UNCHANGED <<cvars, hvars, pvars>>
  \/ Destroy /\ UNCHANGED <<cvars, hvars, pvars>>
SpecWatchLink == InitWatch /\ [][NextWatchLink]_vars

\* the watch on a link that also delivers buffers of another protocol
\* version
NextWatchVersions ==
  \/ Build /\ UNCHANGED <<cvars, hvars, pvars>>
  \/ (\E arr \in InboundBuffers \cup OtherVersionBuffers : Receive(arr))
       /\ UNCHANGED <<cvars, hvars, pvars>>
  \/ Destroy /\ UNCHANGED <<cvars, hvars, pvars>>
SpecWatchVersions == InitWatch /\ [][NextWatchVersions]_vars

InitCodec == CodecInit /\ WatchIdle /\ HostIdle /\ PureIdle
NextCodec ==
  \/ DoEncode /\ UNCHANGED <<wvars, hvars, pvars>>
  \/ DoDecode /\ UNCHANGED <<wvars, hvars, pvars>>
SpecCodec == InitCodec /\ [][NextCodec]_vars

\* one request at a time: the watch has one request outstanding
InitHost == HostInit /\ WatchIdle /\ CodecIdle /\ PureIdle
NextHost ==
  \/ (\E a \in RequestActions : HostRequest(1, a, MaxHostRequests))
       /\ UNCHANGED <<wvars, cvars, pvars>>
  \/ (\E o \in LoginOutcomes : LoginDone(1, o))
       /\ UNCHANGED <<wvars, cvars, pvars>>
  \/ (\E o \in LoginOutcomes : ReloginDone(1, o))
       /\ UNCHANGED <<wvars, cvars, pvars>>
  \/ (\E o \in ReadingsOutcomes : ReadingsDone(1, o))
       /\ UNCHANGED <<wvars, cvars, pvars>>
  \/ (\E o \in WeatherOutcomes : WeatherDone(1, o))
       /\ UNCHANGED <<wvars, cvars, pvars>>
  \/ (\E o \in AstroOutcomes : AstroDone(1, o))
       /\ UNCHANGED <<wvars, cvars, pvars>>
SpecHost == InitHost /\ [][NextHost]_vars

\* one request at a time while the phone clock advances past the cache
\* lifetimes; each call ends in one of the outcomes of CoreXOutcomes
InitHostCache == HostInit /\ WatchIdle /\ CodecIdle /\ PureIdle
NextHostCache ==
  \/ HostRequest(1, "fetchAll", MaxCacheRequests)
       /\ UNCHANGED <<wvars, cvars, pvars>>
  \/ (\E o \in CoreLoginOutcomes : LoginDone(1, o))
       /\ UNCHANGED <<wvars, cvars, pvars>>
  \/ (\E o \in CoreLoginOutcomes : ReloginDone(1, o))
       /\ UNCHANGED <<wvars, cvars, pvars>>
  \/ (\E o \in CoreReadingsOutcomes : ReadingsDone(1, o))
       /\ UNCHANGED <<wvars, cvars, pvars>>
  \/ (\E o \in CoreWeatherOutcomes : WeatherDone(1, o))
       /\ UNCHANGED <<wvars, cvars, pvars>>
  \/ (\E o \in CoreAstroOutcomes : AstroDone(1, o))
       /\ UNCHANGED <<wvars, cvars, pvars>>
  \/ (\E d \in TickSteps : Tick(d, MaxTicks)) /\ UNCHANGED <<wvars, cvars, pvars>>
SpecHostCache == InitHostCache /\ [][NextHostCache]_vars

\* overlapping requests: a second request arrives while the callback of
\* the first is suspended at an await; handler h is the invocation of the
\* callback for the h-th request, and the session is accepted
InitHostConc ==
  /\ HostInit /\ settings = FullSettings
  /\ WatchIdle /\ CodecIdle /\ PureIdle
NextHostConc ==
  \/ (nreq < NumHandlers /\ HostRequest(nreq + 1, "fetchAll", NumHandlers))
       /\ UNCHANGED <<wvars, cvars, pvars>>
  \/ (\E h \in Handlers, o \in CoreLoginOutcomes : LoginDone(h, o))
       /\ UNCHANGED <<wvars, cvars, pvars>>
  \/ (\E h \in Handlers, o \in ConcReadingsOutcomes : ReadingsDone(h, o))
       /\ UNCHANGED <<wvars, cvars, pvars>>
  \/ (\E h \in Handlers, o \in CoreWeatherOutcomes : WeatherDone(h, o))
       /\ UNCHANGED <<wvars, cvars, pvars>>
  \/ (\E h \in Handlers, o \in CoreAstroOutcomes : AstroDone(h, o))
       /\ UNCHANGED <<wvars, cvars, pvars>>
SpecHostConc == InitHostConc /\ [][NextHostConc]_vars

\* overlapping runs of the handler against a readings endpoint that may
\* refuse the session
NextHostConcAuth ==
  \/ (nreq < NumHandlers /\ HostRequest(nreq + 1, "fetchAll", NumHandlers))
       /\ UNCHANGED <<wvars, cvars, pvars>>
  \/ (\E h \in Handlers, o \in CoreLoginOutcomes : LoginDone(h, o))
       /\ UNCHANGED <<wvars, cvars, pvars>>
  \/ (\E h \in Handlers, o \in CoreLoginOutcomes : ReloginDone(h, o))
       /\ UNCHANGED <<wvars, cvars, pvars>>
  \/ (\E h \in Handlers, o \in CoreReadingsOutcomes : ReadingsDone(h, o))
       /\ UNCHANGED <<wvars, cvars, pvars>>
  \/ (\E h \in Handlers, o \in CoreWeatherOutcomes : WeatherDone(h, o))
       /\ UNCHANGED <<wvars, cvars, pvars>>
  \/ (\E h \in Handlers, o \in CoreAstroOutcomes : AstroDone(h, o))
       /\ UNCHANGED <<wvars, cvars, pvars>>
SpecHostConcAuth == InitHostConc /\ [][NextHostConcAuth]_vars

\* overlapping runs of the handler while the phone clock advances
NextHostConcClock ==
  \/ NextHostConc
  \/ Tick(1, MaxTicks) /\ UNCHANGED <<wvars, cvars, pvars>>
SpecHostConcClock == InitHostConc /\ [][NextHostConcClock]_vars

\* one request at a time, the phone clock advancing only between two
\* requests: a request is answered at the time it arrived
NextHostPaced ==
  \/ HostRequest(1, "fetchAll", MaxCacheRequests)
       /\ UNCHANGED <<wvars, cvars, pvars>>
  \/ (\E o \in CoreLoginOutcomes : LoginDone(1, o))
       /\ UNCHANGED <<wvars, cvars, pvars>>
  \/ (\E o \in CoreLoginOutcomes : ReloginDone(1, o))
       /\ UNCHANGED <<wvars, cvars, pvars>>
  \/ (\E o \in CoreReadingsOutcomes : ReadingsDone(1, o))
       /\ UNCHANGED <<wvars, cvars, pvars>>
  \/ (\E o \in WeatherOutcomes : WeatherDone(1, o))
       /\ UNCHANGED <<wvars, cvars, pvars>>
  \/ (\E o \in AstroOutcomes : AstroDone(1, o))
       /\ UNCHANGED <<wvars, cvars, pvars>>
  \/ (hs[1].pc \in {"idle", "done"} /\ \E d \in TickSteps : Tick(d, MaxTicks))
       /\ UNCHANGED <<wvars, cvars, pvars>>
SpecHostPaced == InitHostConc /\ [][NextHostPaced]_vars

\* applyAll on its own, over every combination of absent, null and present
\* sections
InitApply == ApplyInit /\ WatchIdle /\ CodecIdle /\ HostIdle
NextApply == RunApplyAll /\ UNCHANGED <<wvars, cvars, hvars>>
SpecApply == InitApply /\ [][NextApply]_vars

\* one request at a time while the user edits the settings between and
\* during requests
InitHostSettings == HostInit /\ WatchIdle /\ CodecIdle /\ PureIdle
NextHostSettings ==
  \/ HostRequest(1, "fetchAll", MaxHostRequests)
       /\ UNCHANGED <<wvars, cvars, pvars>>
  \/ (\E o \in CoreLoginOutcomes : LoginDone(1, o))
       /\ UNCHANGED <<wvars, cvars, pvars>>
  \/ (\E o \in CoreLoginOutcomes : ReloginDone(1, o))
       /\ UNCHANGED <<wvars, cvars, pvars>>
  \/ (\E o \in CoreReadingsOutcomes : ReadingsDone(1, o))
       /\ UNCHANGED <<wvars, cvars, pvars>>
  \/ (\E o \in CoreWeatherOutcomes : WeatherDone(1, o))
       /\ UNCHANGED <<wvars, cvars, pvars>>
  \/ (\E o \in CoreAstroOutcomes : AstroDone(1, o))
       /\ UNCHANGED <<wvars, cvars, pvars>>
  \/ (\E s \in SettingsChoices : ChangeSettings(s))
       /\ UNCHANGED <<wvars, cvars, pvars>>
SpecHostSettings == InitHostSettings /\ [][NextHostSettings]_vars

\* the handler while the user edits the settings between two requests, so
\* that the settings a request finds stay as they are until its response
NextHostBetween ==
  \/ HostRequest(1, "fetchAll", MaxHostRequests)
       /\ UNCHANGED <<wvars, cvars, pvars>>
  \/ (\E o \in CoreLoginOutcomes : LoginDone(1, o))
       /\ UNCHANGED <<wvars, cvars, pvars>>
  \/ (\E o \in CoreLoginOutcomes : ReloginDone(1, o))
       /\ UNCHANGED <<wvars, cvars, pvars>>
  \/ (\E o \in CoreReadingsOutcomes : ReadingsDone(1, o))
       /\ UNCHANGED <<wvars, cvars, pvars>>
  \/ (\E o \in CoreWeatherOutcomes : WeatherDone(1, o))
       /\ UNCHANGED <<wvars, cvars, pvars>>
  \/ (\E o \in CoreAstroOutcomes : AstroDone(1, o))
       /\ UNCHANGED <<wvars, cvars, pvars>>
  \/ (hs[1].pc \in {"idle", "done"}
        /\ \E s \in SettingsChoices : ChangeSettings(s))
       /\ UNCHANGED <<wvars, cvars, pvars>>
SpecHostBetween == InitHostSettings /\ [][NextHostBetween]_vars

\* the sun and moon rule on its own
InitAstro == AstroInit /\ WatchIdle /\ CodecIdle /\ HostIdle
NextAstro == RunSunMoon /\ UNCHANGED <<wvars, cvars, hvars>>
SpecAstro == InitAstro /\ [][NextAstro]_vars

\* the schedule derivation on its own
InitSchedule == ScheduleInit /\ WatchIdle /\ CodecIdle /\ HostIdle
NextSchedule == RunComputeGarbageBag /\ UNCHANGED <<wvars, cvars, hvars>>
SpecSchedule == InitSchedule /\ [][NextSchedule]_vars

\* the handler refetching after the caches have expired, whatever the
\* endpoints answer
InitHostRefetch ==
  /\ HostInit /\ settings = FullSettings
  /\ WatchIdle /\ CodecIdle /\ PureIdle
NextHostRefetch ==
  \/ HostRequest(1, "fetchAll", MaxCacheRequests)
       /\ UNCHANGED <<wvars, cvars, pvars>>
  \/ (\E o \in LoginOutcomes : LoginDone(1, o))
       /\ UNCHANGED <<wvars, cvars, pvars>>
  \/ (\E o \in LoginOutcomes : ReloginDone(1, o))
       /\ UNCHANGED <<wvars, cvars, pvars>>
  \/ (\E o \in ReadingsOutcomes : ReadingsDone(1, o))
       /\ UNCHANGED <<wvars, cvars, pvars>>
  \/ (\E o \in WeatherOutcomes : WeatherDone(1, o))
       /\ UNCHANGED <<wvars, cvars, pvars>>
  \/ (\E o \in AstroOutcomes : AstroDone(1, o))
       /\ UNCHANGED <<wvars, cvars, pvars>>
  \/ (hs[1].pc \in {"idle", "done"} /\ Tick(ASTRO_CACHE_MS, MaxTicks))
       /\ UNCHANGED <<wvars, cvars, pvars>>
SpecHostRefetch == InitHostRefetch /\ [][NextHostRefetch]_vars

\* the handler against servers that may stop answering; the phone clock
\* keeps advancing and every call that has not hung completes
InitHostLive ==
  /\ HostInit /\ settings = FullSettings
  /\ WatchIdle /\ CodecIdle /\ PureIdle
NextHostLive ==
  \/ HostRequest(1, "fetchAll", MaxHostRequests)
       /\ UNCHANGED <<wvars, cvars, pvars>>
  \/ Completes /\ UNCHANGED <<wvars, cvars, pvars>>
  \/ CallHangs(1) /\ UNCHANGED <<wvars, cvars, pvars>>
  \/ Tick(GLUCOSE_CACHE_MS, MaxTicks) /\ UNCHANGED <<wvars, cvars, pvars>>
SpecHostLive ==
  /\ InitHostLive /\ [][NextHostLive]_vars
  /\ WF_vars(Completes /\ UNCHANGED <<wvars, cvars, pvars>>)
  /\ WF_vars(Tick(GLUCOSE_CACHE_MS, MaxTicks) /\ UNCHANGED <<wvars, cvars, pvars>>)
\* ================================================================ claims

\* ---- C1 ----------------------------------------------------------------
\* the latest buffer is one the callback decodes as a Response (payType 2)
RxIsResponse(arr) == RxHasInner(arr) /\ RxPayType(arr) = 2

\* the step is a run of the receive callback (the other steps of the watch
\* move the clock or the lifecycle phase)
Delivery == phase = "running" /\ phase' = phase /\ wclock' = wclock

\* C1: a Response is applied to the display only if its traceId is pending;
\* a Response whose traceId is not pending leaves the display and _pending
\* as they were, and the callback returns silently (the Response is ignored,
\* or its text did not parse and the exception was swallowed).
C1_ResponseNeedsPending ==
  [][ (Delivery /\ RxIsResponse(rx') /\ RxTraceId(rx') \notin _pending)
        => /\ display' = display
           /\ _pending' = _pending
           /\ rxPath' \in {"ignored", "badjson"} ]_vars

\* a Response for a traceId that is not pending was delivered, and ignored,
\* while another request was pending and the display had been written
C1_Witness ==
  /\ RxIsResponse(rx)
  /\ rxPath = "ignored"
  /\ RxTraceId(rx) \notin _pending
  /\ _pending # {}
  /\ display # DisplayInit

\* ---- C2 ----------------------------------------------------------------
\* C2: one glucose fetch cycle issues at most two readings calls and at
\* most two logins, whatever the readings endpoint answers.
C2_AuthRetryBound ==
  \A h \in Handlers : hs[h].reads <= 2 /\ hs[h].logins <= 2

\* ---- C3 ----------------------------------------------------------------
\* C3: decoding the encoding of an envelope gives back its kind, channelId,
\* traceId, payloadKind and payload.
C3_RoundTrip ==
  dec # NotDecoded
    => /\ dec.ok
       /\ dec.kind = env.kind
       /\ dec.channelId = env.channelId
       /\ dec.traceId = env.traceId
       /\ dec.payloadKind = env.payloadKind
       /\ dec.payload = env.payload

\* ---- C4 ----------------------------------------------------------------
\* the data length the callback reads from arr exceeds the data present
RxOverDeclared(arr) ==
  Len(arr) > DataStart /\ RxPayLen(arr) > Len(arr) - DataStart

\* C4: a buffer shorter than the outer header, or one whose declared data
\* length exceeds the bytes that follow the headers, is never applied.
C4_BadLengthRejected ==
  (Len(rx) < OuterLen \/ (RxHasInner(rx) /\ RxOverDeclared(rx)))
    => rxPath \notin {"response", "push", "shake"}

\* ---- C5 ----------------------------------------------------------------
\* the step is one in which handler 1 enters fetchGlucose, fetchWeather,
\* fetchAstronomy for a fetchAll request
EntersGlucose ==
  /\ hs'[1].action = "fetchAll"
  /\ \/ nreq' # nreq
     \/ hs[1].pc = "g_relogin" /\ hs'[1].pc # "g_relogin" /\ sessionId' # 0
EntersWeather ==
  /\ hs'[1].action = "fetchAll"
  /\ nreq' # nreq \/ hs[1].pc \in {"g_login", "g_read", "g_relogin"}
  /\ hs'[1].pc \in {"w_wait", "a_wait", "done"}
EntersAstronomy ==
  /\ hs'[1].action = "fetchAll"
  /\ nreq' # nreq \/ hs[1].pc \in {"g_login", "g_read", "g_relogin", "w_wait"}
  /\ hs'[1].pc \in {"a_wait", "done"}

\* the settings hold what each source needs
HasCredentials ==
  settings.dexcom_username # "" /\ settings.dexcom_password # ""
HasLocation ==
  /\ ParseCoord(settings.latitude) \notin {NaN, 0}
  /\ ParseCoord(settings.longitude) \notin {NaN, 0}
HasWeatherConfig == settings.owm_api_key # "" /\ HasLocation
HasAstroConfig   == settings.ipgeo_api_key # "" /\ HasLocation

FailedOutcomes == {"unavailable", "status", "empty", "throw"}
GoodOutcomes   == {"ok", "cache"}

\* C6: whatever way each source ends, the fetchAll response is a snapshot
\* (never an error object) in which the field of each failed source is
\* null and the field of each successful source carries its result.
C6_PartialResults ==
  \A h \in Handlers :
    (hs[h].pc = "done" /\ hs[h].action = "fetchAll")
      => LET r == hs[h].response.data IN
         /\ "error" \notin DOMAIN r
         /\ hs[h].gOut \in FailedOutcomes \cup GoodOutcomes
         /\ hs[h].wOut \in FailedOutcomes \cup GoodOutcomes
         /\ hs[h].aOut \in FailedOutcomes \cup GoodOutcomes
         /\ (hs[h].gOut \in FailedOutcomes) <=> (r.glucose = Null)
         /\ (hs[h].wOut \in FailedOutcomes) <=> (r.weather = Null)
         /\ (hs[h].aOut \in FailedOutcomes) <=> (r.astronomy = Null)
         /\ hs[h].gOut \in GoodOutcomes
              => r.glucose.value = hs[h].glucose.value
         /\ hs[h].wOut \in GoodOutcomes => r.weather.temp = hs[h].weather.temp
         /\ hs[h].aOut \in GoodOutcomes => r.astronomy = hs[h].astronomy

\* the weather call threw while glucose and astronomy were fetched: the
\* response has weather null and the other two fields populated
C6_Witness ==
  /\ hs[1].pc = "done"
  /\ hs[1].gOut = "ok" /\ hs[1].wOut = "throw" /\ hs[1].aOut = "ok"
  /\ hs[1].response.data.weather = Null
  /\ hs[1].response.data.glucose # Null
  /\ hs[1].response.data.astronomy # Null

\* ---- C7 ----------------------------------------------------------------
\* C7: once the 60 s response window of the latest request has passed,
\* no traceId is pending any more.
C7_TimeoutClearsPending ==
  (phase = "running" /\ wclock - reqClock >= 60 * 1000) => _pending = {}

\* ---- C8 ----------------------------------------------------------------
\* C8: after onDestroy the pending set is empty and the link is released.
C8_TeardownClearsPending ==
  phase = "destroyed" => (_pending = {} /\ ~linkUp)

\* ---- C9 ----------------------------------------------------------------
\* C9: while the glucose fetch of a request waits for its upstream call,
\* the weather and astronomy calls of that request have been issued (when
\* those sources are configured and have nothing cached).
C9_FetchesStartTogether ==
  \A h \in Handlers :
    (/\ hs[h].pc \in {"g_login", "g_read", "g_relogin"}
     /\ HasWeatherConfig /\ HasAstroConfig
     /\ cachedWeather = Null /\ cachedAstro = Null)
      => hs[h].wCalls > 0 /\ hs[h].aCalls > 0

\* ---- C10 ---------------------------------------------------------------
\* C10: at most one login call is in flight at any time.
C10_SingleLoginInFlight ==
  Cardinality({h \in Handlers : hs[h].pc \in {"g_login", "g_relogin"}}) <= 1

\* ---- C11 ---------------------------------------------------------------
\* the handlers whose fetch of a source waits for its upstream data call
InFlight(pc) == {h \in Handlers : hs[h].pc = pc}

\* C11: for each source (glucose readings, weather, astronomy) at most one
\* upstream data call is in flight at any time.
C11_SingleFlightPerSource ==
  /\ Cardinality(InFlight("g_read")) <= 1
  /\ Cardinality(InFlight("w_wait")) <= 1
  /\ Cardinality(InFlight("a_wait")) <= 1

\* ---- C12 ---------------------------------------------------------------
\* the fields of a packet the watch sent, at the offsets where _buildPkt
\* and _buildInner write them
TxOuterType(buf)   == Rd16(buf, 2)
TxPort2(buf)       == Rd16(buf, 6)
TxTraceId(buf)     == _r32(buf, 16)
TxPayloadType(buf) == buf[16 + 24 + 1]
TxData(buf)        == SubSeq(buf, DataStart + 1, Len(buf))

\* the latest buffer is one the callback takes as a shake reply
RxIsShakeReply(arr) == Len(arr) >= OuterLen /\ RxOuterType(arr) = 1

\* C12: on each shake reply the client stores the port the reply carries,
\* sends exactly one request packet with the text {"action":"fetchAll"} on
\* that port, and records the traceId of that request as pending.
C12_ShakeReplyRequests ==
  [][ (Delivery /\ RxIsShakeReply(rx'))
        => /\ _blePort' = RxPort2(rx')
           /\ Len(sent') = Len(sent) + 1
           /\ SubSeq(sent', 1, Len(sent)) = sent
           /\ LET pkt == sent'[Len(sent')] IN
              /\ TxOuterType(pkt) = 4
              /\ TxPort2(pkt) = RxPort2(rx')
              /\ TxPayloadType(pkt) = 1
              /\ JSON_parse(_b2s(TxData(pkt))) = ValFetchAll
              /\ TxTraceId(pkt) \notin _pending
              /\ _pending' = _pending \cup {TxTraceId(pkt)} ]_vars

\* two shake replies were handled: two requests are pending, the second
\* sent on the port of the second reply
C12_Witness ==
  /\ rxPath = "shake"
  /\ Len(sent) = 3
  /\ Cardinality(_pending) = 2
  /\ _blePort = RxPort2(rx)
  /\ TxPort2(sent[3]) = _blePort
  /\ TxPort2(sent[2]) # _blePort

\* ---- C13 ---------------------------------------------------------------
\* the JSON value the callback parses out of the buffer arr
RxMsg(arr) == JSON_parse(_b2s(RxPayload(arr)))

\* C13: a Response whose traceId is pending (and whose text parses) has its
\* snapshot applied and its traceId removed from the pending set; a
\* Response is applied only while its traceId is pending, and a traceId
\* that left the pending set never enters it again, so the Response of one
\* request is applied at most once.
C13_ResponseAppliedOnce ==
  [][ Delivery =>
        /\ (RxIsResponse(rx') /\ RxTraceId(rx') \in _pending
              /\ RxMsg(rx') # JThrow)
             => /\ rxPath' = "response"
                /\ _pending' = _pending \ {RxTraceId(rx')}
                /\ display' = applyAll(display, Get(RxMsg(rx'), "data"),
                                       hasBottom)
                /\ (RxMsg(rx') = ValRespFull
                      => /\ display'.glucose = "120"
                         /\ display'.delta = "+2"
                         /\ display'.timeDelta = "3m")
         /\ (rxPath' = "response"
               => RxTraceId(rx') \in _pending /\ RxTraceId(rx') \notin _pending')
         /\ \A t \in _pending' \ _pending : t > _traceId ]_vars

\* the Response for request 10001 came a second time, after it had been
\* applied and its traceId cleared: it was ignored
C13_Witness ==
  /\ rx = RespBuf(TraceId0 + 1, TxtRespFull)
  /\ rxPath = "ignored"
  /\ _traceId = TraceId0 + 1
  /\ _pending = {}
  /\ display.glucose = "120"

\* ---- C14 ---------------------------------------------------------------
\* the latest buffer is one the callback decodes as a Push (payType 3)
\* whose text parses
RxIsPush(arr) == RxHasInner(arr) /\ RxPayType(arr) = 3 /\ RxMsg(arr) # JThrow

\* C14: a Push received while a request is outstanding is applied at once,
\* whatever its traceId, and leaves the pending set (and the request
\* counter and the packets sent) unchanged.
C14_PushWhilePending ==
  [][ (Delivery /\ RxIsPush(rx') /\ _pending # {})
        => /\ rxPath' = "push"
           /\ display' = applyPush(display, RxMsg(rx'), hasBottom)
           /\ (RxMsg(rx') = ValPushGlucose
                 => /\ display'.glucose = "200"
                    /\ display'.glucoseColor = "C_ORANGE"
                    /\ display'.delta = "+5"
                    /\ display'.timeDelta = "2m")
           /\ (RxMsg(rx') = ValPushBag
                 => /\ display'.garbageVisible
                    /\ display'.garbageSrc = "images/organicbag.png")
           /\ (RxMsg(rx') = ValPushNoBag => ~display'.garbageVisible)
           /\ _pending' = _pending
           /\ _traceId' = _traceId
           /\ sent' = sent ]_vars

\* a Push carrying the pending traceId 10001 was applied and 10001 is
\* still pending
C14_Witness ==
  /\ rx = PushBuf(TraceId0 + 1, TxtPushBag)
  /\ rxPath = "push"
  /\ TraceId0 + 1 \in _pending
  /\ display.garbageVisible

\* the matching Response was applied after a Push had been applied while
\* the request was outstanding
C14_WitnessLater ==
  /\ rx = RespBuf(TraceId0 + 1, TxtRespFull)
  /\ rxPath = "response"
  /\ _traceId = TraceId0 + 1
  /\ display.garbageVisible
  /\ display.glucose = "120"

\* ---- C15 ---------------------------------------------------------------
\* section s is absent from the snapshot or null in it
SectionMissing(s) == Get(input.msg, s).t \in {"undef", "null"}

RxMalformed(arr) ==
  \/ Len(arr) < OuterLen
  \/ /\ RxOuterType(arr) \in {4, 5}
     /\ Len(arr) < DataStart \/ RxOverDeclared(arr)

\* the buffer holds data that is not JSON text
RxBadJson(arr) == RxHasInner(arr) /\ RxMsg(arr) = JThrow

\* C16: a buffer that fails envelope decoding or JSON decoding is dropped:
\* the pending set, the stored port and the display are unchanged and the
\* callback returns without applying anything.
C16_UndecodableDropped ==
  [][ (Delivery /\ (RxMalformed(rx') \/ RxBadJson(rx')))
        => /\ _pending' = _pending
           /\ _blePort' = _blePort
           /\ display' = display
           /\ rxPath' \in {"short", "other", "badjson"} ]_vars

\* ---- C17 ---------------------------------------------------------------
\* C17: a fetchAll request that arrives while username or password is not
\* configured gets no glucose (null) and issues neither a login call nor a
\* readings call.
C17_NoCredentialsNoGlucose ==
  [][ (nreq' # nreq /\ hs'[1].action = "fetchAll" /\ ~HasCredentials)
        => /\ hs'[1].glucose = Null
           /\ hs'[1].logins = 0 /\ hs'[1].reads = 0
           /\ hs'[1].pc \notin {"g_login", "g_read", "g_relogin"}
           /\ calls'.read = calls.read
           /\ (hs'[1].pc = "done"
                 => hs'[1].response.data.glucose = Null) ]_vars

\* ---- C18 ---------------------------------------------------------------
\* the times of the input as minutes of the day
NowMin      == MinutesOf(input.nowStr)
SunsetMin   == MinutesOf(input.sunset)
MoonriseMin == MinutesOf(input.moonrise)
MoonsetMin  == MinutesOf(input.moonset)

\* the surfaced sun time is sunrise when sunIsRising and sunset otherwise
SunTimeFollows ==
  output.sunTime = IF output.sunIsRising THEN input.sunrise ELSE input.sunset

\* C18 as stated: sunIsRising is true unless now is strictly later than
\* sunset, and the sun time is sunrise when sunIsRising, sunset otherwise.
C18_SunRisingUnlessPast ==
  output # NotRun =>
    /\ output.sunIsRising <=> ~(NowMin > SunsetMin)
    /\ SunTimeFollows

\* C18 amended: sunIsRising is true exactly when now is strictly earlier
\* than sunset (false at the minute of sunset and after it), and the sun
\* time is sunrise when sunIsRising, sunset otherwise.
C18_SunRisingBefore ==
  output # NotRun =>
    /\ output.sunIsRising <=> NowMin < SunsetMin
    /\ SunTimeFollows

\* the fetch ran at the minute of sunset: sunIsRising is false and the
\* sun time is sunset
C18_Witness ==
  /\ output # NotRun
  /\ input.nowStr = input.sunset
  /\ ~output.sunIsRising
  /\ output.sunTime = input.sunset /\ input.sunset # input.sunrise

EvaluatedDay ==
  IF input.hour < input.cutoff.hour THEN input.weekday
  ELSE (input.weekday + 1) % 7

\* C20: for every weekday, hour 0..23, cutoff hour 0..23 and three bucket
\* sets, the result is the code of the first bucket, in the order organic,
\* grey, black, that contains the evaluated day (today when hour < cutoff,
\* tomorrow when hour >= cutoff), or none when no bucket contains it.
C20_ScheduleDerivation ==
  output # NotRun =>
    output.bag = IF EvaluatedDay \in input.organic.days THEN "O"
                 ELSE IF EvaluatedDay \in input.grey.days THEN "G"
                 ELSE IF EvaluatedDay \in input.black.days THEN "B"
                 ELSE "none"

\* the same statement for cutoff hours other than 0
C20_NonZeroCutoff ==
  input.cutoff.hour # 0 => C20_ScheduleDerivation

\* ---- C21 ---------------------------------------------------------------
\* C21: after a snapshot for which no pickup applies (its settings section
\* absent or null, as the host builds it) is applied, the garbage bag icon
\* is hidden whatever was shown before; after a snapshot that carries a
\* pickup code the icon of that code is shown.
C21_BagIconFollowsPickup ==
  output # NotRun =>
    /\ SectionMissing("settings") => ~output.d.garbageVisible
    /\ Get(input.msg, "settings") = SectionValue.settings
         => /\ output.d.garbageVisible
            /\ output.d.garbageSrc = BAG_IMGS.G

\* the half of C21 about a snapshot that carries a pickup code
C21_PickupShown ==
  output # NotRun =>
    (Get(input.msg, "settings") = SectionValue.settings
       => /\ output.d.garbageVisible
          /\ output.d.garbageSrc = BAG_IMGS.G)

\* ---- C22 ---------------------------------------------------------------
\* C22: the first packet the client sends is a shake (outer type 1) with
\* port 0 and a one-byte payload, the low byte of its appId, the appId
\* being in the header; and a request packet (outer type 4) is sent only
\* by the run of the receive callback on a shake reply.
C22_ShakeFirst ==
  [][ /\ (sent' # <<>>
            => /\ TxOuterType(sent'[1]) = 1
               /\ TxPort2(sent'[1]) = 0
               /\ _r32(sent'[1], 8) = _appId'
               /\ Len(sent'[1]) = OuterLen + 1
               /\ sent'[1][OuterLen + 1] = _appId' % 256)
      /\ \A i \in 1..Len(sent') :
           (i > Len(sent) /\ TxOuterType(sent'[i]) = 4)
             => /\ Delivery /\ RxIsShakeReply(rx')
                /\ i > 1 ]_vars

\* the shake went out first and the request followed the shake reply
C22_Witness ==
  /\ Len(sent) = 2
  /\ TxOuterType(sent[1]) = 1 /\ TxOuterType(sent[2]) = 4
  /\ RxIsShakeReply(rx) /\ rxPath = "shake"
  /\ _appId = DefaultAppId

\* ---- C23 ---------------------------------------------------------------
\* C23: a received buffer whose protocol version byte is not 0x01 causes
\* no state change: no port is stored, no request is sent, nothing is
\* applied to the display and the pending set is unchanged.
C23_OtherVersionRejected ==
  [][ (Delivery /\ Len(rx') >= 2 /\ rx'[2] # 1)
        => /\ _blePort' = _blePort
           /\ sent' = sent
           /\ display' = display
           /\ _pending' = _pending
           /\ _traceId' = _traceId ]_vars

\* ---- C24 ---------------------------------------------------------------
\* handler h issues a readings call in this step
IssuesReadings(h) ==
  /\ calls'.read > calls.read
  /\ hs'[h] # hs[h]
  /\ hs'[h].pc = "g_read"

\* C24: once a readings call has reported an auth failure, the token it
\* used is not used for another readings call, by the same fetch or by one
\* that starts while the re-login is in flight: a readings call issued
\* while a handler awaits its re-login carries a token of a later login
\* than the token that handler's call was refused with.
C24_RefusedTokenNotReused ==
  [][ \A h1 \in Handlers, h2 \in Handlers :
        (hs[h1].pc = "g_relogin" /\ IssuesReadings(h2))
          => hs'[h2].token > hs[h1].token ]_vars

\* ---- C25 ---------------------------------------------------------------
\* the login or re-login handler h awaited fails in this step: fetchGlucose
\* leaves through its catch block
LoginFails(h) ==
  /\ hs[h].pc \in {"g_login", "g_relogin"}
  /\ hs'[h].gOut = "throw"

\* C25: when the login or the re-login fails, the session is none after
\* the fetch, the glucose field of this cycle's snapshot is absent, and the
\* cycle issues no further login or readings call.
C25_LoginFailureEndsFetch ==
  [][ \A h \in Handlers :
        /\ LoginFails(h)
             => /\ sessionId' = 0
                /\ hs'[h].glucose = Null
                /\ hs'[h].logins = hs[h].logins
                /\ hs'[h].reads = hs[h].reads
                /\ (hs'[h].pc = "done"
                      => hs'[h].response.data.glucose = Null)
        /\ (hs[h].gOut = "throw" /\ hs[h].pc \notin {"idle", "done"})
             => /\ hs'[h].logins = hs[h].logins
                /\ hs'[h].reads = hs[h].reads
                /\ (hs'[h].pc = "done"
                      => hs'[h].response.data.glucose = Null) ]_vars

\* the re-login after an auth failure failed: the cycle ended with the
\* session none, glucose absent, weather present, two logins and one
\* readings call
C25_Witness ==
  /\ hs[1].pc = "done" /\ hs[1].gOut = "throw"
  /\ hs[1].auth500 = 1 /\ hs[1].logins = 2 /\ hs[1].reads = 1
  /\ sessionId = 0
  /\ hs[1].response.data.glucose = Null
  /\ hs[1].response.data.weather # Null

\* ---- C26 ---------------------------------------------------------------
\* C26: every fetchAll request eventually gets its response, also when an
\* upstream call never completes.
C26_AlwaysResponds ==
  (hs[1].pc \notin {"idle", "done"}) ~> (hs[1].pc = "done")

\* every request whose calls all complete gets its response: a request
\* stays unanswered only behind a call that hangs
C26_RespondsUnlessHung ==
  (hs[1].pc \notin {"idle", "done"}) ~> (hs[1].pc = "done" \/ Hung(1))

\* ---- C27 ---------------------------------------------------------------
\* the settings hold no latitude/longitude pair that parses as numbers
NoValidLocation ==
  \/ ParseCoord(settings.latitude) = NaN
  \/ ParseCoord(settings.longitude) = NaN

\* C27: a fetchAll request that finds no valid latitude/longitude in the
\* settings issues no weather and no astronomy call, and the weather and
\* astronomy fields of its snapshot are absent (null).
C27_NoLocationNoWeather ==
  [][ (hs'[1] # hs[1] /\ hs'[1].action = "fetchAll" /\ NoValidLocation')
        => /\ hs'[1].wCalls = 0 /\ hs'[1].aCalls = 0
           /\ calls'.weather = calls.weather
           /\ hs'[1].weather = Null /\ hs'[1].astronomy = Null
           /\ (hs'[1].pc = "done"
                 => /\ hs'[1].response.data.weather = Null
                    /\ hs'[1].response.data.astronomy = Null) ]_vars

\* ---- C28 ---------------------------------------------------------------
\* C28: a fetch that fails leaves its source's cache entry, value and
\* fetchedAt, as it was; an entry changes only in the step in which its
\* source's upstream call succeeds, and then the value becomes the new
\* result and fetchedAt the time the fetch started, together.
C28_CacheEntryWholesale ==
  [][ /\ IF hs[1].pc = "g_read" /\ hs'[1].gOut = "ok"
           THEN /\ cachedGlucose' = hs'[1].glucose /\ cachedGlucose' # Null
                /\ lastGlucoseFetch' = hs[1].now
           ELSE /\ cachedGlucose' = cachedGlucose
                /\ lastGlucoseFetch' = lastGlucoseFetch
      /\ IF hs[1].pc = "w_wait" /\ hs'[1].wOut = "ok"
           THEN /\ cachedWeather' = hs'[1].weather /\ cachedWeather' # Null
                /\ lastWeatherFetch' = hs[1].now
           ELSE /\ cachedWeather' = cachedWeather
                /\ lastWeatherFetch' = lastWeatherFetch
      /\ IF hs[1].pc = "a_wait" /\ hs'[1].aOut = "ok"
           THEN /\ cachedAstro' = hs'[1].astronomy /\ cachedAstro' # Null
                /\ lastAstroFetch' = hs[1].now
           ELSE /\ cachedAstro' = cachedAstro
                /\ lastAstroFetch' = lastAstroFetch ]_vars

\* a refetch of the weather failed after the entry had expired: the old
\* entry is still there, with its old fetchedAt
C28_Witness ==
  /\ hs[1].pc = "done"
  /\ hs[1].wCalls = 1 /\ hs[1].wOut \in {"status", "throw"}
  /\ cachedWeather # Null
  /\ lastWeatherFetch = HNow0 /\ hnow > HNow0

\* ---- C29 ---------------------------------------------------------------
\* C29: every request packet the client sent carries a traceId strictly
\* greater than that of every request packet sent before it, and the
\* pending traceIds are traceIds of requests sent, one request each.
C29_TraceIdsIncrease ==
  /\ \A i \in 1..Len(sent), j \in 1..Len(sent) :
       (i < j /\ TxOuterType(sent[i]) = 4 /\ TxOuterType(sent[j]) = 4)
         => TxTraceId(sent[i]) < TxTraceId(sent[j])
  /\ \A t \in _pending :
       Cardinality({i \in 1..Len(sent) :
                      TxOuterType(sent[i]) = 4 /\ TxTraceId(sent[i]) = t}) = 1

\* two requests are outstanding, with traceIds 10001 and 10002
C29_Witness ==
  /\ Len(sent) = 3
  /\ TxTraceId(sent[2]) = TraceId0 + 1 /\ TxTraceId(sent[3]) = TraceId0 + 2
  /\ _pending = {TraceId0 + 1, TraceId0 + 2}

\* ---- C30 ---------------------------------------------------------------
\* the responses the host sends for an unknown action or an internal error
ErrorResponses == {RespBuf(t, txt) : t \in {TraceId0 + 1, TraceId0 + 2},
                                      txt \in {TxtRespError, TxtRespInternal}}

\* C30: the delivery of a response that carries an error object, matched
\* with a pending request or not, changes no field of the display.
C30_ErrorResponseInert ==
  [][(Delivery /\ rx' \in ErrorResponses /\ rxPath' \in {"response", "ignored"})
       => display' = display]_vars

\* an error response was matched with its pending request while the display
\* showed the glucose reading of an earlier push
C30_Witness ==
  /\ rx \in ErrorResponses
  /\ rxPath = "response"
  /\ display.glucose = "200"
  /\ display.garbageVisible

\* ---- C31 ---------------------------------------------------------------
\* C31: in every reachable state of the watch client the pending set holds
\* at most one traceId.
C31_AtMostOnePending == Cardinality(_pending) <= 1

\* C31, what holds: the pending set grows only by the traceId of the
\* request sent in the same step, one per shake reply delivered.
C31_OnePendingPerShakeReply ==
  [][(Delivery /\ _pending' # _pending /\ ~(_pending' \subseteq _pending))
       => /\ rxPath' = "shake"
          /\ _pending' = _pending \cup {_traceId + 1}
          /\ Len(sent') = Len(sent) + 1]_vars

\* ---- C32 ---------------------------------------------------------------
\* C32: for each source, under any interleaving of concurrently handled
\* requests, the fetchedAt of the cache entry never decreases.
C32_FetchedAtMonotonic ==
  [][/\ lastGlucoseFetch' >= lastGlucoseFetch
     /\ lastWeatherFetch' >= lastWeatherFetch
     /\ lastAstroFetch' >= lastAstroFetch]_vars

\* ---- C33 ---------------------------------------------------------------
\* the step answers a fetchAll request with an astronomy value
AnswersWithAstronomy ==
  /\ hs[1].pc # "done" \/ nreq' # nreq
  /\ hs'[1].pc = "done"
  /\ hs'[1].action = "fetchAll"
  /\ hs'[1].response.data.astronomy # Null

\* C33: every astronomy value returned for a fetchAll request, fetched or
\* served from the cache, is the one derived from the local time of that
\* request (the clock does not advance while a request is handled).
C33_AstronomyOfRequestTime ==
  [][AnswersWithAstronomy
       => hs'[1].response.data.astronomy
            = AstroResult(AstroData, MinuteOfDay(hnow))]_vars

\* C33, what holds: an astronomy value fetched for the request is derived
\* from the local time of the request.
C33_FetchedAstronomyCurrent ==
  [][(AnswersWithAstronomy /\ hs'[1].aOut = "ok")
       => hs'[1].response.data.astronomy
            = AstroResult(AstroData, MinuteOfDay(hnow))]_vars

\* ---- C34 ---------------------------------------------------------------
\* length of the inner header _buildInner writes before the data
InnerHeaderLen == 66

\* the inner header of buf, a packet built by _buildPkt around _buildInner,
\* read at the offsets where _buildInner writes, and data the payload
InnerHeaderOf(buf, data) ==
  /\ Len(buf) = OuterLen + InnerHeaderLen + Len(data)
  /\ _r32(buf, OuterLen + 4) = 0
  /\ buf[OuterLen + 25 + 1] = 1
  /\ \A k \in 0..6 : _r32(buf, OuterLen + 30 + 4 * k) = 0
  /\ _r32(buf, OuterLen + 16) = Len(data)
  /\ _r32(buf, OuterLen + 20) = Len(data)
  /\ SubSeq(buf, OuterLen + InnerHeaderLen + 1, Len(buf)) = data

\* C34: every packet the encoder produces has parentId 0, the finished
\* flag set, the seven slots after the timestamp zero, both declared
\* lengths equal to the number of payload bytes, and 16 + 66 + payload
\* length bytes in all.
C34_InnerHeaderShape ==
  /\ wire # <<>> => InnerHeaderOf(wire, env.payload)
  /\ \A i \in 1..Len(sent) :
       TxOuterType(sent[i]) = 4 => InnerHeaderOf(sent[i], TxtFetchAll)

\* a packet was encoded with a timestamp other than zero
C34_Witness ==
  /\ wire # <<>>
  /\ env.payload = TxtRespError
  /\ env.ts = 123456
  /\ env.traceId = 70000

====
